---- MODULE Spec2Model ----
(***************************************************************************)
(* The travel recommendation pipeline of main.py and of                    *)
(* generate_travel_recommendation_withoutLangGraph.py: one run of          *)
(* generate_travel_recommendation, stage by stage, with the outcome of     *)
(* every external call (LLM, geocoding, weather API, Ticketmaster, Azure   *)
(* Search) chosen by the environment.                                      *)
(*                                                                         *)
(* Python values: a str is a TLA+ string, a dict is a record or a function *)
(* from key names, a list is a sequence, and an optional value x is the    *)
(* tuple <<x>>, with None the empty tuple.                                 *)
(***************************************************************************)
EXTENDS Integers, Sequences, FiniteSets, TLC

VARIABLES
    variant,                \* which orchestrator file runs: "main" or "plain"
    user_prompt,            \* the argument of generate_travel_recommendation
    today,                  \* datetime.now(), as days since 1970-01-01
    pc,                     \* the orchestrator's position
    parsed_intent,          \* orchestrator locals, None until assigned
    weather,
    events,
    activities_list,
    outfit_recommendations,
    products,
    composite_query,        \* the query get_raw_products_from_rag searched with
    final_output,           \* the value returned by the run
    exc,                    \* the exception that escaped the run, or None
    calls,                  \* every function and external service invoked, in order
    io,                     \* the outcome the environment gave to each external call
    kwscan,                 \* whether the keyword fallback block executed
    stage_log,              \* the failures generate_travel_recommendation itself reports
    search_reply,           \* what the search service answered in step 5
    plan,                   \* what generate_formal_plan returned
    state,                  \* the chat's state dict, holding state["intent"]
    updates                 \* the update dictionary bot_turn merged last

vars == << variant, user_prompt, today, pc, parsed_intent, weather, events,
           activities_list, outfit_recommendations, products, composite_query,
           final_output, exc, calls, io, kwscan, stage_log,
           search_reply, plan, state, updates >>

-----------------------------------------------------------------------------
(* Python values *)

None == << >>
Some(v) == << v >>
Val(x) == x[1]
IsNone(x) == Len(x) = 0

\* `if s:` for an optional str
TruthyStr(x) == ~IsNone(x) /\ Val(x) /= ""

\* d.get(k) on a dict of optional values
Get(d, k) == IF k \in DOMAIN d THEN d[k] ELSE None

\* a or b, for optional strs
OrElse(a, b) == IF TruthyStr(a) THEN a ELSE b

-----------------------------------------------------------------------------
(* str operations *)

Min(S) == CHOOSE x \in S : \A y \in S : x <= y
Max(S) == CHOOSE x \in S : \A y \in S : y <= x

Lowers == "abcdefghijklmnopqrstuvwxyz"
Uppers == "ABCDEFGHIJKLMNOPQRSTUVWXYZ"
Whitespace == {" ", "\t", "\n", "\r"}

Char(s, i) == SubSeq(s, i, i)

IsLower(c) == \E i \in 1..Len(Lowers) : Char(Lowers, i) = c
IsUpper(c) == \E i \in 1..Len(Uppers) : Char(Uppers, i) = c
IsLetter(c) == IsLower(c) \/ IsUpper(c)
IsSpace(c) == c \in Whitespace

LowerChar(c) ==
    IF IsUpper(c)
    THEN Char(Lowers, CHOOSE i \in 1..Len(Uppers) : Char(Uppers, i) = c)
    ELSE c

UpperChar(c) ==
    IF IsLower(c)
    THEN Char(Uppers, CHOOSE i \in 1..Len(Lowers) : Char(Lowers, i) = c)
    ELSE c

\* str.lower()
RECURSIVE lower(_)
lower(s) ==
    IF Len(s) = 0 THEN ""
    ELSE IF Len(s) = 1 THEN LowerChar(s)
    ELSE LET h == Len(s) \div 2
         IN lower(SubSeq(s, 1, h)) \o lower(SubSeq(s, h + 1, Len(s)))

\* str.title(): the first letter of every run of letters in upper case, the rest lower
RECURSIVE TitleFrom(_, _)
TitleFrom(s, i) ==
    IF i > Len(s) THEN ""
    ELSE LET c == Char(s, i)
             first == i = 1 \/ ~IsLetter(Char(s, i - 1))
         IN (IF first THEN UpperChar(c) ELSE LowerChar(c)) \o TitleFrom(s, i + 1)

title(s) == TitleFrom(s, 1)

\* s.strip(chars): drop leading and trailing characters of the set
StripSet(s, cs) ==
    LET Between(keep) == IF keep = {} THEN "" ELSE SubSeq(s, Min(keep), Max(keep))
    IN Between({i \in 1..Len(s) : Char(s, i) \notin cs})

strip(s) == StripSet(s, Whitespace)

\* s[i:].startswith(k), for i in 1..Len(s)+1
MatchAt(s, i, k) == i + Len(k) - 1 <= Len(s) /\ SubSeq(s, i, i + Len(k) - 1) = k

\* k in s
Contains(s, k) == \E i \in 1..(Len(s) + 1) : MatchAt(s, i, k)

StartsWith(s, k) == MatchAt(s, 1, k)
EndsWith(s, k) == Len(k) <= Len(s) /\ MatchAt(s, Len(s) - Len(k) + 1, k)

\* sep.join(parts)
RECURSIVE Join(_, _)
Join(parts, sep) ==
    IF Len(parts) = 0 THEN ""
    ELSE IF Len(parts) = 1 THEN parts[1]
    ELSE parts[1] \o sep \o Join(Tail(parts), sep)

-----------------------------------------------------------------------------
(* re: the character classes and anchors the patterns of main.py use *)

Digits == "0123456789"
IsDigit(c) == \E i \in 1..Len(Digits) : Char(Digits, i) = c

\* \w
IsWordChar(c) == IsLetter(c) \/ IsDigit(c) \/ c = "_"

\* \b at position i of s (between s[i-1] and s[i]), i in 1..Len(s)+1
WordBoundary(s, i) ==
    LET before == i > 1 /\ IsWordChar(Char(s, i - 1))
        after == i <= Len(s) /\ IsWordChar(Char(s, i))
    IN before /= after

\* the length of the longest run of characters satisfying Cls that starts at i
RunLen(s, i, Cls(_)) ==
    IF i > Len(s) THEN 0
    ELSE Min({j \in i..(Len(s) + 1) : j = Len(s) + 1 \/ ~Cls(Char(s, j))}) - i

\* the first entry of the sequence alts (the order of a regex alternation)
\* that satisfies P, as an index, or 0
FirstAlt(alts, P(_)) ==
    LET First(ok) == IF ok = {} THEN 0 ELSE Min(ok)
    IN First({a \in 1..Len(alts) : P(alts[a])})

-----------------------------------------------------------------------------
(* datetime: dates are day numbers counted from 1970-01-01; start_date and *)
(* end_date are the ISO strings the code stores                            *)

\* date.weekday(): Monday is 0
weekday(day) == (day + 3) % 7

\* (year, month, day) of a day number
CivilFromDays(days) ==
    LET Civil(era, yoe, doy, mp) ==
            [year |-> yoe + era * 400 + (IF mp >= 10 THEN 1 ELSE 0),
             month |-> IF mp < 10 THEN mp + 3 ELSE mp - 9,
             day |-> doy - (153 * mp + 2) \div 5 + 1]
        FromDoy(era, yoe, doy) == Civil(era, yoe, doy, (5 * doy + 2) \div 153)
        FromYoe(era, doe, yoe) ==
            FromDoy(era, yoe, doe - (365 * yoe + yoe \div 4 - yoe \div 100))
        FromDoe(era, doe) ==
            FromYoe(era, doe,
                    (doe - doe \div 1460 + doe \div 36524 - doe \div 146096) \div 365)
        FromEra(z, era) == FromDoe(era, z - era * 146097)
        FromZ(z) == FromEra(z, z \div 146097)
    IN FromZ(days + 719468)

DaysFromCivil(year, month, dom) ==
    LET FromYoe(era, yoe, doy) ==
            era * 146097 + (yoe * 365 + yoe \div 4 - yoe \div 100 + doy) - 719468
        FromEra(y, era) ==
            FromYoe(era, y - era * 400,
                    (153 * (IF month > 2 THEN month - 3 ELSE month + 9) + 2) \div 5
                        + dom - 1)
        FromY(y) == FromEra(y, y \div 400)
    IN FromY(IF month <= 2 THEN year - 1 ELSE year)

Pad2(n) == IF n < 10 THEN "0" \o ToString(n) ELSE ToString(n)
Pad4(n) == IF n < 10 THEN "000" \o ToString(n)
           ELSE IF n < 100 THEN "00" \o ToString(n)
           ELSE IF n < 1000 THEN "0" \o ToString(n)
           ELSE ToString(n)

\* date.isoformat()
isoformat(day) ==
    LET Iso(c) == Pad4(c.year) \o "-" \o Pad2(c.month) \o "-" \o Pad2(c.day)
    IN Iso(CivilFromDays(day))

\* int(s) for a str of digits
RECURSIVE ParseInt(_)
ParseInt(s) ==
    IF s = "" THEN 0
    ELSE 10 * ParseInt(SubSeq(s, 1, Len(s) - 1))
         + (CHOOSE v \in 0..9 : Char(Digits, v + 1) = Char(s, Len(s)))

AllDigits(s) == s /= "" /\ \A i \in 1..Len(s) : IsDigit(Char(s, i))

DaysInMonth(y, m) ==
    IF m = 2 THEN (IF (y % 4 = 0 /\ y % 100 /= 0) \/ y % 400 = 0 THEN 29 ELSE 28)
    ELSE IF m \in {4, 6, 9, 11} THEN 30 ELSE 31

\* datetime.strptime(s, "%Y-%m-%d"): the day number, or None where it raises
\* ValueError (the fields may have fewer digits than their width, not more)
strptime_ymd(s) ==
    LET Date(y, m, d) ==
            IF y < 1 \/ m < 1 \/ m > 12 \/ d < 1 \/ d > DaysInMonth(y, m) THEN None
            ELSE Some(DaysFromCivil(y, m, d))
        Fields(ys, ms, ds) ==
            IF ~(AllDigits(ys) /\ AllDigits(ms) /\ AllDigits(ds)) THEN None
            ELSE IF Len(ys) /= 4 \/ Len(ms) > 2 \/ Len(ds) > 2 THEN None
            ELSE Date(ParseInt(ys), ParseInt(ms), ParseInt(ds))
        Split(a, b) ==
            Fields(SubSeq(s, 1, a - 1), SubSeq(s, a + 1, b - 1), SubSeq(s, b + 1, Len(s)))
        At(dashes) ==
            IF Cardinality(dashes) /= 2 THEN None ELSE Split(Min(dashes), Max(dashes))
    IN At({i \in 1..Len(s) : Char(s, i) = "-"})

MonthNames == << "january", "february", "march", "april", "may", "june", "july",
                 "august", "september", "october", "november", "december" >>


-----------------------------------------------------------------------------
(* parse_travel_intent of main.py: the destination patterns *)

\* (?:\s+for|\s+in|\s+from|$|[,;.]) at position p
DestTerminatorAt(s, p) ==
    LET AfterSpaces(k) == k >= 1 /\ \E w \in {"for", "in", "from"} : MatchAt(s, p + k, w)
    IN \/ AfterSpaces(RunLen(s, p, IsSpace))
       \/ p = Len(s) + 1
       \/ p = Len(s) /\ Char(s, p) = "\n"
       \/ p <= Len(s) /\ Char(s, p) \in {",", ";", "."}

\* [A-Za-z\s]
IsDestChar(c) == IsLetter(c) \/ IsSpace(c)

\* the lengths the lazy group ([A-Za-z\s]+?) can take from position c
DestCaptureLens(s, c) ==
    {m \in 1..RunLen(s, c, IsDestChar) : DestTerminatorAt(s, c + m)}

\* one alternative of the leading group at position i, then \s+ (greedy), then
\* the lazy group: the group's text, or None
DestAltMatch(s, i, pre) ==
    LET Group(c, lens) == Some(SubSeq(s, c, c + Min(lens) - 1))
        Spaces(q, ks) ==
            IF ks = {} THEN None
            ELSE Group(q + Max(ks), DestCaptureLens(s, q + Max(ks)))
        From(q) ==
            Spaces(q, {k \in 1..RunLen(s, q, IsSpace) : DestCaptureLens(s, q + k) /= {}})
    IN IF ~MatchAt(s, i, pre) THEN None ELSE From(i + Len(pre))

DestMatchAt(s, i, pres) ==
    LET Hit(pre) == ~IsNone(DestAltMatch(s, i, pre))
        Alt(a) == IF a = 0 THEN None ELSE DestAltMatch(s, i, pres[a])
    IN Alt(FirstAlt(pres, Hit))

\* re.search of a pattern of the first two shapes: the leftmost match
DestPrefixSearch(s, pres) ==
    LET Leftmost(hits) == IF hits = {} THEN None ELSE DestMatchAt(s, Min(hits), pres)
    IN Leftmost({i \in 1..Len(s) : ~IsNone(DestMatchAt(s, i, pres))})

DestPrefixes1 == << "to", "in", "visiting", "travelling to", "traveling to", "trip to" >>
DestPrefixes2 == << "destination", "going to", "heading to" >>

\* (?:next|this|last|in|for) at position p
RelKeywordAt(s, p) == \E w \in {"next", "this", "last", "in", "for"} : MatchAt(s, p, w)

\* the length of [A-Z][a-z]{n,} at position i, or 0
CapWordLen(s, i, n) ==
    LET Word(lowers) == IF lowers >= n THEN 1 + lowers ELSE 0
    IN IF i <= Len(s) /\ IsUpper(Char(s, i)) THEN Word(RunLen(s, i + 1, IsLower)) ELSE 0

\* ^([A-Z][a-z]+)(?:\s+[A-Z][a-z]+)?\s+(?:next|this|last|in|for)
DestPattern3(s) ==
    LET Second(n1, q, n2) ==
            \* q: after the first word and its spaces; n2: the second word's length
            \/ RelKeywordAt(s, q)
            \/ /\ n2 > 0
               /\ RunLen(s, q + n2, IsSpace) >= 1
               /\ RelKeywordAt(s, q + n2 + RunLen(s, q + n2, IsSpace))
        Spaces(n1, w1) ==
            IF w1 >= 1 /\ Second(n1, 1 + n1 + w1, CapWordLen(s, 1 + n1 + w1, 1))
            THEN Some(SubSeq(s, 1, n1)) ELSE None
        First(n1) == IF n1 > 0 THEN Spaces(n1, RunLen(s, 1 + n1, IsSpace)) ELSE None
    IN First(CapWordLen(s, 1, 1))

\* \b([A-Z][a-z]{3,})\s+(?:next|this|last|in|for)
DestPattern4(s) ==
    LET Tail4(p, w) == w >= 1 /\ RelKeywordAt(s, p + w)
        Word(i, n) == n > 0 /\ Tail4(i + n, RunLen(s, i + n, IsSpace))
        Hit(i) == WordBoundary(s, i) /\ Word(i, CapWordLen(s, i, 3))
        Leftmost(hits) ==
            IF hits = {} THEN None
            ELSE Some(SubSeq(s, Min(hits), Min(hits) + CapWordLen(s, Min(hits), 3) - 1))
    IN Leftmost({i \in 1..Len(s) : Hit(i)})

\* the loop over dest_patterns: the first pattern that matches decides
RegexDestination(prompt) ==
    LET Clean(m) == IF IsNone(m) THEN None ELSE Some(title(strip(Val(m))))
        Try3(m3) == IF ~IsNone(m3) THEN Clean(m3) ELSE Clean(DestPattern4(prompt))
        Try2(m2) == IF ~IsNone(m2) THEN Clean(m2) ELSE Try3(DestPattern3(prompt))
        Try1(m1) ==
            IF ~IsNone(m1) THEN Clean(m1)
            ELSE Try2(DestPrefixSearch(prompt, DestPrefixes2))
    IN Try1(DestPrefixSearch(prompt, DestPrefixes1))

LeadingVerbs == << "visiting", "visit", "going to", "go to", "trip to", "heading to",
                   "destination" >>

\* re.sub(r'^(visit(?:ing)?|going to|go to|trip to|heading to|destination)\s+', '', d)
StripLeadingVerb(d) ==
    LET Cut(l, p) == SubSeq(d, p + RunLen(l, p, IsSpace), Len(d))
        Alt(l, a) == IF a = 0 THEN d ELSE Cut(l, 1 + Len(LeadingVerbs[a]))
        Lowered(l) ==
            LET Hit(v) == MatchAt(l, 1, v) /\ RunLen(l, 1 + Len(v), IsSpace) >= 1
            IN Alt(l, FirstAlt(LeadingVerbs, Hit))
    IN Lowered(lower(d))

RelWords == << "next", "this", "last" >>
RelUnits == << "week", "weekend", "month", "year" >>

\* the length of a match of \b(next|this|last)\s+(week|weekend|month|year)\b
\* at position i of the lowercased text l, or 0
RelPhraseLenAt(l, i) ==
    LET Unit(a, w, b) == IF w = 0 \/ b = 0 THEN 0 ELSE Len(RelWords[a]) + w + Len(RelUnits[b])
        Spaces(a, p, w) ==
            LET HitUnit(u) == MatchAt(l, p + w, u) /\ WordBoundary(l, p + w + Len(u))
            IN Unit(a, w, FirstAlt(RelUnits, HitUnit))
        Word(a) ==
            IF a = 0 \/ ~WordBoundary(l, i) THEN 0
            ELSE Spaces(a, i + Len(RelWords[a]), RunLen(l, i + Len(RelWords[a]), IsSpace))
        HitWord(w) == MatchAt(l, i, w)
    IN Word(FirstAlt(RelWords, HitWord))

\* re.sub of that pattern by '': every match removed, left to right
RECURSIVE RemoveRelPhrases(_, _, _)
RemoveRelPhrases(s, l, i) ==
    LET Skip(n) == IF n > 0 THEN RemoveRelPhrases(s, l, i + n)
                   ELSE Char(s, i) \o RemoveRelPhrases(s, l, i + 1)
    IN IF i > Len(s) THEN "" ELSE Skip(RelPhraseLenAt(l, i))

\* the clean-up of a non-empty destination: str or None
NormalizeDestination(d) ==
    LET Titled(c) == IF c /= "" THEN Some(title(c)) ELSE None
        Without(a) == Titled(StripSet(strip(RemoveRelPhrases(a, lower(a), 1)),
                                      {" ", ",", ".", ";"}))
    IN Without(StripLeadingVerb(d))


-----------------------------------------------------------------------------
(* What a call returns to the orchestrator: the exception it raised (or    *)
(* None), the value it returned, the functions and services it invoked and *)
(* what the environment answered to each external call.                    *)

Returned(v, cs, ios) == [exc |-> None, ret |-> v, calls |-> cs, io |-> ios]
Raised(e, cs, ios) == [exc |-> Some(e), ret |-> None, calls |-> cs, io |-> ios]
IO(svc, out) == [svc |-> svc, out |-> out]

-----------------------------------------------------------------------------
(* parse_travel_intent of main.py: dates, and the function itself.         *)
(* The requests this development draws write their explicit dates as       *)
(* yyyy-mm-dd and hold no other digit next to a "-" or a "/".               *)

SingleDayWords == << "today", "tomorrow", "yesterday" >>

\* re.search(r"\b(today|tomorrow|yesterday)\b", prompt).group(1), or None
single_day_match(prompt) ==
    LET At(i) == LET Hit(w) == /\ WordBoundary(prompt, i)
                               /\ MatchAt(prompt, i, w)
                               /\ WordBoundary(prompt, i + Len(w))
                 IN FirstAlt(SingleDayWords, Hit)
        Leftmost(hits) == IF hits = {} THEN None ELSE Some(SingleDayWords[At(Min(hits))])
    IN Leftmost({i \in 1..Len(prompt) : At(i) /= 0})

RelPeriods == << "week", "weekend", "month" >>

\* re.search(r"(next|this|last)\s+(week|weekend|month)", prompt): the two
\* groups of the leftmost match, or None
relative_date_match(prompt) ==
    LET Ref(i) == LET Hit(w) == MatchAt(prompt, i, w) IN FirstAlt(RelWords, Hit)
        PeriodFrom(p, w) ==
            LET Hit(u) == w >= 1 /\ MatchAt(prompt, p + w, u) IN FirstAlt(RelPeriods, Hit)
        PeriodAfter(p) == PeriodFrom(p, RunLen(prompt, p, IsSpace))
        Period(i, r) == IF r = 0 THEN 0 ELSE PeriodAfter(i + Len(RelWords[r]))
        Groups(i) == [ref_type |-> RelWords[Ref(i)],
                      ref_period |-> RelPeriods[Period(i, Ref(i))]]
        Leftmost(hits) == IF hits = {} THEN None ELSE Some(Groups(Min(hits)))
    IN Leftmost({i \in 1..Len(prompt) : Period(i, Ref(i)) /= 0})

DurationUnits == << "week", "day", "night" >>

\* re.search(r"(\d+)\s+(week|day|night)s?", prompt): the duration_days the
\* leftmost match gives, or None
duration_match(prompt) ==
    LET Unit(p, w) ==
            LET Hit(u) == w >= 1 /\ MatchAt(prompt, p + w, u)
            IN FirstAlt(DurationUnits, Hit)
        After(p) == Unit(p, RunLen(prompt, p, IsSpace))
        UnitAt(i) == IF RunLen(prompt, i, IsDigit) = 0 THEN 0
                     ELSE After(i + RunLen(prompt, i, IsDigit))
        Days(amount, u) == IF u = 1 THEN amount * 7
                           ELSE IF u = 2 THEN amount ELSE amount + 1
        At(i) == Days(ParseInt(SubSeq(prompt, i, i + RunLen(prompt, i, IsDigit) - 1)),
                      UnitAt(i))
        Leftmost(hits) == IF hits = {} THEN None ELSE Some(At(Min(hits)))
    IN Leftmost({i \in 1..Len(prompt) : UnitAt(i) /= 0})

\* \d{4}-\d{2}-\d{2} at position i
IsoShapeAt(s, i) ==
    /\ i + 9 <= Len(s)
    /\ \A k \in {0, 1, 2, 3, 5, 6, 8, 9} : IsDigit(Char(s, i + k))
    /\ Char(s, i + 4) = "-"
    /\ Char(s, i + 7) = "-"

\* re.findall(r"(\d{4}-\d{2}-\d{2})", s) from position i on
RECURSIVE FindIsoDates(_, _)
FindIsoDates(s, i) ==
    IF i + 9 > Len(s) THEN << >>
    ELSE IF IsoShapeAt(s, i) THEN << SubSeq(s, i, i + 9) >> \o FindIsoDates(s, i + 10)
    ELSE FindIsoDates(s, i + 1)

\* the loop over date_patterns: the days strptime makes of the strings found,
\* in their order. The second pattern finds pieces of a yyyy-mm-dd date and the
\* third a month name with a day, which none of the five formats parses.
explicit_dates(prompt) ==
    LET Days(found) == [i \in 1..Len(found) |-> strptime_ymd(found[i])]
        Valid(days) == SelectSeq(days, LAMBDA d : ~IsNone(d))
        Parsed(valid) == [i \in 1..Len(valid) |-> Val(valid[i])]
    IN Parsed(Valid(Days(FindIsoDates(prompt, 1))))

\* re.findall(month_patterns, prompt)[0]: the number of the first month name
\* in the text, or None
first_month(prompt) ==
    LET At(i) == LET Hit(m) == MatchAt(prompt, i, m) IN FirstAlt(MonthNames, Hit)
        Leftmost(hits) == IF hits = {} THEN None ELSE Some(At(Min(hits)))
    IN Leftmost({i \in 1..Len(prompt) : At(i) /= 0})

\* re.search(r"\b(202\d|203\d)\b", prompt): the year, or None
year_match(prompt) ==
    LET Hit(i) == /\ WordBoundary(prompt, i)
                  /\ MatchAt(prompt, i, "202") \/ MatchAt(prompt, i, "203")
                  /\ RunLen(prompt, i + 3, IsDigit) >= 1
                  /\ WordBoundary(prompt, i + 4)
        Leftmost(hits) ==
            IF hits = {} THEN None ELSE Some(ParseInt(SubSeq(prompt, Min(hits), Min(hits) + 3)))
    IN Leftmost({i \in 1..Len(prompt) : Hit(i)})

\* the replies of the destination LLM call: the call or json.loads raises, or
\* the JSON object's "destination" is null, a str, or a value that is no str
LLMDestinationReplies ==
    { [kind |-> "raise", destination |-> None],
      [kind |-> "json", destination |-> None],
      [kind |-> "json", destination |-> Some("Miami")],
      [kind |-> "nonstr", destination |-> None] }

parse_travel_intent(prompt_arg, now, llm) ==
    LET \* the dict returned, its dates day numbers or None
        Result(destination, start, end, duration_days, month, cs, ios) ==
            Returned([destination |-> destination,
                      start_date |-> IF IsNone(start) THEN None
                                     ELSE Some(isoformat(Val(start))),
                      end_date |-> IF IsNone(end) THEN None ELSE Some(isoformat(Val(end))),
                      duration_days |-> duration_days,
                      season_hint |-> IF IsNone(month) THEN None
                                      ELSE Some(title(MonthNames[Val(month)])),
                      raw_prompt |-> Some(prompt_arg)], cs, ios)
        \* no start_date but a month: its first day, and the days asked for or
        \* its last day
        Inferred(destination, duration_days, month, year, cs, ios) ==
            LET first == DaysFromCivil(year, Val(month), 1)
                last == IF ~IsNone(duration_days) /\ Val(duration_days) /= 0
                        THEN first + Val(duration_days) - 1
                        ELSE first + DaysInMonth(year, Val(month)) - 1
            IN Result(destination, Some(first), Some(last), Some(last - first + 1),
                      month, cs, ios)
        \* after the explicit dates: the end a known duration gives, then the
        \* inference from the month
        Finish(prompt, destination, start, end, duration_days, month, cs, ios) ==
            IF IsNone(start) /\ ~IsNone(month)
            THEN Inferred(destination, duration_days, month,
                          IF IsNone(year_match(prompt)) THEN CivilFromDays(now).year
                          ELSE Val(year_match(prompt)), cs, ios)
            ELSE IF ~IsNone(start) /\ ~IsNone(duration_days) /\ Val(duration_days) /= 0
                    /\ IsNone(end)
            THEN Result(destination, start, Some(Val(start) + Val(duration_days) - 1),
                        duration_days, month, cs, ios)
            ELSE Result(destination, start, end, duration_days, month, cs, ios)
        \* the explicit dates: the first fills an empty start_date, every other
        \* one overwrites end_date
        Explicit(prompt, destination, start, end, duration_days, dates, cs, ios) ==
            Finish(prompt, destination,
                   IF IsNone(start) /\ Len(dates) > 0 THEN Some(dates[1]) ELSE start,
                   IF Len(dates) > (IF IsNone(start) THEN 1 ELSE 0)
                   THEN Some(dates[Len(dates)]) ELSE end,
                   duration_days, first_month(prompt), cs, ios)
        \* sd: the single-day keyword; regex: the destination the patterns find;
        \* rel: the relative-date groups
        Build(prompt, sd, regex, rel) ==
            LET start_dt1 == IF Val(sd) = "today" THEN now
                             ELSE IF Val(sd) = "tomorrow" THEN now + 1
                             ELSE now - 1
                asked == ~TruthyStr(regex)
                destination0 == IF ~asked THEN regex
                                ELSE IF llm.kind = "json" THEN llm.destination
                                ELSE None
                nonstr == asked /\ llm.kind = "nonstr"
                week == ~IsNone(rel) /\ IsNone(sd) /\ Contains(Val(rel).ref_period, "week")
                wd == weekday(now)
                next_monday == IF (7 - wd) % 7 = 0 THEN 7 ELSE (7 - wd) % 7
                unbound == week /\ ~Contains(Val(rel).ref_type, "next")
                                /\ ~Contains(Val(rel).ref_type, "this")
                start_dt2 == IF Contains(Val(rel).ref_type, "next") THEN now + next_monday
                             ELSE now - wd
                cs == << "parse_travel_intent" >> \o (IF asked THEN << "llm" >> ELSE << >>)
                ios == IF asked THEN << IO("llm:destination", llm.kind) >> ELSE << >>
            IN IF nonstr THEN Raised("TypeError", cs, ios)
               ELSE IF unbound THEN Raised("UnboundLocalError", cs, ios)
               ELSE Explicit(prompt,
                             IF TruthyStr(destination0)
                             THEN NormalizeDestination(Val(destination0))
                             ELSE destination0,
                             IF week THEN Some(start_dt2)
                             ELSE IF IsNone(sd) THEN None ELSE Some(start_dt1),
                             IF week THEN Some(start_dt2 + 6)
                             ELSE IF IsNone(sd) THEN None ELSE Some(start_dt1),
                             IF week THEN Some(7) ELSE duration_match(prompt),
                             explicit_dates(prompt), cs, ios)
        Lowered(prompt) ==
            Build(prompt, single_day_match(prompt), RegexDestination(prompt_arg),
                  relative_date_match(prompt))
    IN Lowered(lower(prompt_arg))

-----------------------------------------------------------------------------
(* extract_with_llm of parse_travel_intent.py *)

\* strftime("%Y-%m-%d") of Saturday and Sunday on or after base_date
weekend_range(base_date) ==
    LET Range(sat) == << isoformat(sat), isoformat(sat + 1) >>
    IN Range(base_date + ((5 - weekday(base_date)) % 7))

_resolve_relative_dates(obj, now) ==
    LET Is(tag) == obj.start_date = Some(tag) \/ obj.end_date = Some(tag)
        Both(o, s, e) == [o EXCEPT !.start_date = Some(s), !.end_date = Some(e)]
        Weekend(o, r) == Both(o, r[1], r[2])
        Step4(o) == IF Is("<NEXT_WEEKEND>") THEN Weekend(o, weekend_range(now + 7)) ELSE o
        Step3(o) == Step4(IF Is("<THIS_WEEKEND>") THEN Weekend(o, weekend_range(now)) ELSE o)
        Step2(o) == Step3(IF Is("<TOMORROW>")
                          THEN Both(o, isoformat(now + 1), isoformat(now + 1)) ELSE o)
    IN Step2(IF Is("<TODAY>") THEN Both(obj, isoformat(now), isoformat(now)) ELSE obj)

IntentReply(dest, sd, ed, dur, season) ==
    [destination |-> dest, start_date |-> sd, end_date |-> ed,
     duration_days |-> dur, season_hint |-> season]

\* the replies of the intent LLM call: the call or json.loads raises, the JSON
\* is no object, or it is one of these objects
LLMIntentReplies ==
    { [kind |-> "raise", json |-> IntentReply(None, None, None, None, None)],
      [kind |-> "nondict", json |-> IntentReply(None, None, None, None, None)],
      [kind |-> "json", json |-> IntentReply(None, None, None, None, None)],
      [kind |-> "json", json |-> IntentReply(Some("Miami"), Some("<NEXT_WEEKEND>"),
                                             None, Some(2), Some("winter"))],
      [kind |-> "json", json |-> IntentReply(Some("Goa"), Some("2020-01-10"),
                                             Some("2020-01-12"), Some(3), None)] }

extract_with_llm(prompt_arg, now, llm) ==
    LET cs == << "extract_with_llm", "llm" >>
        ios == << IO("llm:intent", llm.kind) >>
    IN IF llm.kind = "raise" THEN Raised("UnboundLocalError", cs, ios)
       ELSE IF llm.kind = "nondict" THEN Raised("AttributeError", cs, ios)
       ELSE Returned(_resolve_relative_dates(llm.json, now), cs, ios)

-----------------------------------------------------------------------------
(* numbers: a Python int or float with at most one decimal, held in tenths *)

Num(t, f) == [t |-> t, f |-> f]
PyFloat(t) == Num(t, TRUE)
PyInt(n) == Num(n * 10, FALSE)

\* str() of a number, as an f-string formats it
pystr(x) ==
    LET a == IF x.t < 0 THEN 0 - x.t ELSE x.t
        sign == IF x.t < 0 THEN "-" ELSE ""
    IN IF x.f THEN sign \o ToString(a \div 10) \o "." \o ToString(a % 10)
       ELSE sign \o ToString(a \div 10)

\* round(n / d) for d > 0, ties to even as Python's round
RoundHalfEven(n, d) ==
    LET q == n \div d
        r == n % d
    IN IF 2 * r < d THEN q
       ELSE IF 2 * r > d THEN q + 1
       ELSE IF q % 2 = 0 THEN q ELSE q + 1

RECURSIVE SumSeq(_)
SumSeq(xs) == IF Len(xs) = 0 THEN 0 ELSE Val(Head(xs)) + SumSeq(Tail(xs))

HasNull(xs) == \E i \in 1..Len(xs) : IsNone(xs[i])

-----------------------------------------------------------------------------
(* geocode_location and get_weather_context *)

WeatherSummary(dest, lat, lon, hi, lo, chance, mm, wind, dl, desc, notes, src, err) ==
    [destination |-> dest, latitude |-> lat, longitude |-> lon,
     avg_high_c |-> hi, avg_low_c |-> lo, precipitation_chance |-> chance,
     precipitation_mm |-> mm, wind_info |-> wind, daylight_hours |-> dl,
     weather_description |-> desc, notes |-> notes, data_source |-> src,
     error |-> err]

\* the three-key dict returned when there is no destination or no geocode
ErrorSummary(dest, err) ==
    WeatherSummary(dest, None, None, None, None, None, None, None, None, None,
                   None, Some("error"), Some(err))

Geo(lat, lon, name, admin1) ==
    [latitude |-> lat, longitude |-> lon, name |-> name, admin1 |-> admin1]

\* the outcomes of the geocoding request: it raises (timeout, no JSON), it has
\* no results, or its first result is one of these
GeoReplies ==
    { [kind |-> "raise", geo |-> Geo(None, None, None, None)],
      [kind |-> "empty", geo |-> Geo(None, None, None, None)],
      [kind |-> "found", geo |-> Geo(Some(PyFloat(258)), Some(PyFloat(-802)),
                                     Some("Miami"), Some("Florida"))] }

geocode_location(destination, reply) ==
    IF ~TruthyStr(destination) THEN Returned(None, << >>, << >>)
    ELSE LET cs == << "geocode_location", "geocoding_api" >>
             ios == << IO("geocoding_api", reply.kind) >>
         IN IF reply.kind = "found" THEN Returned(Some(reply.geo), cs, ios)
            ELSE Returned(None, cs, ios)

location_name(geo) ==
    (IF IsNone(geo.name) THEN "None" ELSE Val(geo.name))
    \o (IF TruthyStr(geo.admin1) THEN "," \o Val(geo.admin1) ELSE "")

Daily(tmax, tmin, precip, codes) ==
    [temperature_2m_max |-> tmax, temperature_2m_min |-> tmin,
     precipitation_sum |-> precip, weathercode |-> codes]

\* the outcomes of the forecast or archive request: it raises (a timeout among
\* others), its JSON has no "daily" key, "daily" is null, or "daily" is one of
\* these objects; the values are floats in tenths and None is a JSON null
WeatherReplies ==
    { [kind |-> "timeout", daily |-> Daily(<< >>, << >>, << >>, << >>)],
      [kind |-> "nodaily", daily |-> Daily(<< >>, << >>, << >>, << >>)],
      [kind |-> "nulldaily", daily |-> Daily(<< >>, << >>, << >>, << >>)],
      [kind |-> "daily", daily |-> Daily(<< >>, << >>, << >>, << >>)],
      [kind |-> "daily",
       daily |-> Daily(<< Some(253), Some(245) >>, << Some(212), Some(204) >>,
                       << Some(0), Some(12) >>, << Some(61), Some(0) >>)],
      [kind |-> "daily",
       daily |-> Daily(<< Some(291), None >>, << Some(212), None >>,
                       << Some(0), None >>, << Some(61), None >>)] }

code_desc(code) ==
    CASE code = Some(0) -> "clear sky" [] code = Some(1) -> "mainly clear"
      [] code = Some(2) -> "partly cloudy" [] code = Some(3) -> "overcast"
      [] code = Some(45) -> "foggy" [] code = Some(48) -> "foggy with rime"
      [] code = Some(51) -> "drizzle" [] code = Some(53) -> "moderate drizzle"
      [] code = Some(55) -> "heavy drizzle" [] code = Some(61) -> "rain"
      [] code = Some(63) -> "moderate rain" [] code = Some(65) -> "heavy rain"
      [] code = Some(71) -> "snow" [] code = Some(73) -> "moderate snow"
      [] code = Some(75) -> "heavy snow" [] code = Some(80) -> "rain showers"
      [] code = Some(81) -> "moderate showers" [] code = Some(82) -> "violent showers"
      [] code = Some(95) -> "thunderstorm" [] code = Some(96) -> "thunderstorm with hail"
      [] code = Some(99) -> "thunderstorm with hail"
      [] OTHER -> "variable conditions"

climatology(month) ==
    CASE month = Some("april") -> [avg_high |-> 12, avg_low |-> 6, precip_chance |-> 40, wind |-> "moderate"]
      [] month = Some("may") -> [avg_high |-> 17, avg_low |-> 10, precip_chance |-> 35, wind |-> "light to moderate"]
      [] month = Some("june") -> [avg_high |-> 22, avg_low |-> 14, precip_chance |-> 30, wind |-> "light"]
      [] month = Some("july") -> [avg_high |-> 24, avg_low |-> 16, precip_chance |-> 25, wind |-> "light"]
      [] month = Some("august") -> [avg_high |-> 23, avg_low |-> 15, precip_chance |-> 28, wind |-> "light"]
      [] month = Some("september") -> [avg_high |-> 19, avg_low |-> 12, precip_chance |-> 35, wind |-> "light to moderate"]
      [] month = Some("october") -> [avg_high |-> 14, avg_low |-> 9, precip_chance |-> 45, wind |-> "moderate"]
      [] month = Some("november") -> [avg_high |-> 10, avg_low |-> 6, precip_chance |-> 50, wind |-> "moderate"]
      [] month = Some("december") -> [avg_high |-> 7, avg_low |-> 3, precip_chance |-> 55, wind |-> "moderate to strong"]
      [] month = Some("january") -> [avg_high |-> 6, avg_low |-> 2, precip_chance |-> 60, wind |-> "moderate to strong"]
      [] month = Some("february") -> [avg_high |-> 6, avg_low |-> 2, precip_chance |-> 55, wind |-> "moderate"]
      [] month = Some("march") -> [avg_high |-> 9, avg_low |-> 4, precip_chance |-> 50, wind |-> "moderate"]
      [] OTHER -> [avg_high |-> 12, avg_low |-> 6, precip_chance |-> 40, wind |-> "moderate"]

\* strptime(start_date, "%Y-%m-%d").strftime("%B").lower(), None when it raises
month_of(start_date) ==
    LET Name(day) == IF IsNone(day) THEN None
                     ELSE Some(MonthNames[CivilFromDays(Val(day)).month])
    IN IF ~TruthyStr(start_date) THEN None ELSE Name(strptime_ymd(Val(start_date)))

\* weather_request, were a trip starting today asked of the forecast endpoint
weather_request_forecast_from_today(start_date, now, reply) ==
    LET Request(bad, start_dt) ==
            [asked |-> ~bad,
             data_source |-> IF bad \/ reply.kind = "timeout" THEN "error"
                             ELSE IF start_dt >= now THEN "forecast" ELSE "historical",
             has_daily |-> ~bad /\ reply.kind \in {"nulldaily", "daily"}]
        Parsed(day) == Request(IsNone(day), IF IsNone(day) THEN now ELSE Val(day))
    IN IF TruthyStr(start_date) THEN Parsed(strptime_ymd(Val(start_date)))
       ELSE Request(FALSE, now)

\* the try block before the parsing: which endpoint is asked, and whether the
\* request is made at all (strptime raising is caught with the rest)
weather_request(start_date, now, reply) ==
    LET Request(bad, start_dt) ==
            [asked |-> ~bad,
             data_source |-> IF bad \/ reply.kind = "timeout" THEN "error"
                             ELSE IF start_dt > now THEN "forecast" ELSE "historical",
             has_daily |-> ~bad /\ reply.kind \in {"nulldaily", "daily"}]
        Parsed(day) == Request(IsNone(day), IF IsNone(day) THEN now ELSE Val(day))
    IN IF TruthyStr(start_date) THEN Parsed(strptime_ymd(Val(start_date)))
       ELSE Request(FALSE, now)

\* the metrics both variants compute from "daily"; empty is what an empty
\* precipitation list yields (0 in main.py, 0.0 in get_weather_info.py)
daily_metrics(daily, empty) ==
    LET Wet(precip) == Cardinality({i \in 1..Len(precip) : Val(precip[i]) > 0})
        Mean(xs) == IF Len(xs) = 0 THEN None
                    ELSE Some(PyFloat(RoundHalfEven(SumSeq(xs), Len(xs))))
        Total(precip) == IF Len(precip) = 0 THEN Some(empty)
                         ELSE Some(PyFloat(SumSeq(precip)))
        Chance(precip) == IF Len(precip) = 0 THEN Some(empty)
                          ELSE Some(PyFloat(RoundHalfEven(Wet(precip) * 1000, Len(precip))))
    IN [avg_high |-> Mean(daily.temperature_2m_max),
        avg_low |-> Mean(daily.temperature_2m_min),
        total_precip |-> Total(daily.precipitation_sum),
        precip_chance |-> Chance(daily.precipitation_sum),
        predominant_code |-> IF Len(daily.weathercode) = 0 THEN None
                             ELSE daily.weathercode[1]]

\* sum() over a list holding a null raises TypeError
metrics_raise(daily) ==
    HasNull(daily.temperature_2m_max) \/ HasNull(daily.temperature_2m_min)
        \/ HasNull(daily.precipitation_sum)

\* the summary a timeout tagged with the error instead of the typical climate
climatology_fallback_as_error(destination, start_date) ==
    WeatherSummary(destination, None, None, None, None, None, None, None,
                   Some(PyFloat(120)), None, None, Some("error"),
                   Some("Weather API call failed"))

\* the else branch of "if response and 'daily' in response": the month's row
\* of the climatology table, April's when there is no month
climatology_fallback(destination, start_date) ==
    LET Summary(month, seasonal) ==
            WeatherSummary(destination, None, None,
                Some(PyInt(seasonal.avg_high)), Some(PyInt(seasonal.avg_low)),
                Some(PyInt(seasonal.precip_chance)), None, Some(seasonal.wind),
                Some(PyFloat(120)), None,
                Some("Using typical climatology for "
                     \o (IF TruthyStr(month) THEN Val(month) ELSE "the destination")
                     \o ". Real-time forecast unavailable."),
                Some("climatology"), None)
        Month(month) == Summary(month, climatology(month))
    IN Month(month_of(start_date))

\* get_weather_context of main.py
get_weather_context(destination, start_date, end_date, now, geo_reply, reply) ==
    LET Forecast(geo, name, data_source, m, cs, ios) ==
            Returned(WeatherSummary(Some(name), geo.latitude, geo.longitude, m.avg_high,
                        m.avg_low, m.precip_chance, m.total_precip,
                        Some("Moderate winds"), Some(PyFloat(120)),
                        Some(code_desc(m.predominant_code)),
                        Some("Based on " \o data_source \o " data for " \o name \o "."),
                        Some(data_source), None), cs, ios)
        Parse(geo, req, cs, ios) ==
            IF req.has_daily
            THEN IF reply.kind = "nulldaily" THEN Raised("AttributeError", cs, ios)
                 ELSE IF metrics_raise(reply.daily) THEN Raised("TypeError", cs, ios)
                 ELSE Forecast(geo, location_name(geo), req.data_source,
                               daily_metrics(reply.daily, PyInt(0)), cs, ios)
            ELSE Returned(climatology_fallback(destination, start_date), cs, ios)
        Fetch(g, req) ==
            IF IsNone(g.ret)
            THEN Returned(ErrorSummary(destination,
                     "Location '" \o Val(destination) \o "' not found or geocoding failed"),
                     << "get_weather_context" >> \o g.calls, g.io)
            ELSE Parse(Val(g.ret), req,
                       << "get_weather_context" >> \o g.calls
                           \o (IF req.asked THEN << "weather_api" >> ELSE << >>),
                       g.io \o (IF req.asked THEN << IO("weather_api", reply.kind) >>
                                ELSE << >>))
    IN IF ~TruthyStr(destination)
       THEN Returned(ErrorSummary(None, "No destination provided"),
                     << "get_weather_context" >>, << >>)
       ELSE Fetch(geocode_location(destination, geo_reply),
                  weather_request(start_date, now, reply))

\* the replies of the weather-formatting LLM of get_weather_info.py: the call
\* raises, the content is no JSON, the content is None, the JSON is no object,
\* or it is an object with the keys has and the values obj
NoKeys == WeatherSummary(None, None, None, None, None, None, None, None, None,
                         None, None, None, None)

LLMWeatherReplies ==
    { [kind |-> "raise", has |-> {}, obj |-> NoKeys],
      [kind |-> "badjson", has |-> {}, obj |-> NoKeys],
      [kind |-> "null", has |-> {}, obj |-> NoKeys],
      [kind |-> "nondict", has |-> {}, obj |-> NoKeys],
      [kind |-> "json", has |-> {}, obj |-> NoKeys],
      [kind |-> "json", has |-> DOMAIN NoKeys,
       obj |-> WeatherSummary(Some("Miami, Florida"), Some(PyFloat(258)),
                   Some(PyFloat(-802)), Some(PyFloat(286)), Some(PyFloat(208)),
                   Some(PyFloat(500)), Some(PyFloat(12)), Some("Light"),
                   Some(PyFloat(120)), Some("Rain"), Some("Forecast for Miami."),
                   Some("forecast"), Some("partial data"))] }

\* obj.setdefault(k, v) for each key of defaults
setdefaults(has, obj, keys, defaults) ==
    [k \in DOMAIN obj |-> IF k \in keys /\ k \notin has THEN defaults[k] ELSE obj[k]]

SetdefaultKeys ==
    {"destination", "latitude", "longitude", "data_source", "daylight_hours", "error"}

\* get_weather_context of get_weather_info.py
get_weather_context_llm(destination, start_date, end_date, now, geo_reply, reply, llm) ==
    LET FromDaily(geo, name, data_source, m) ==
            WeatherSummary(Some(name), geo.latitude, geo.longitude, m.avg_high, m.avg_low,
                m.precip_chance, m.total_precip, Some("Moderate"), Some(PyFloat(120)),
                Some("Variable conditions"),
                Some("Based on " \o data_source \o " data for " \o name \o "."),
                Some(data_source), None)
        FromMonth(month_name) ==
            WeatherSummary(destination, None, None, None, None, None, None,
                Some("Moderate"), Some(PyFloat(120)), Some("Typical seasonal conditions"),
                Some("Using LLM estimated climatology for "
                     \o (IF TruthyStr(month_name) THEN Val(month_name)
                         ELSE "the destination")
                     \o ". Real-time forecast unavailable."),
                Some("climatology"), None)
        MonthName(month) == IF ~TruthyStr(start_date) THEN None
                            ELSE IF IsNone(month) THEN Some("Unknown")
                            ELSE Some(title(Val(month)))
        \* fallback: the dict built when the content is no JSON, whose values
        \* are also the defaults of setdefault
        Format(fallback, cs, ios) ==
            IF llm.kind = "raise" THEN Raised("APIError", cs, ios)
            ELSE IF llm.kind = "null" THEN Raised("TypeError", cs, ios)
            ELSE IF llm.kind = "nondict" THEN Raised("AttributeError", cs, ios)
            ELSE IF llm.kind = "badjson" THEN Returned(fallback, cs, ios)
            ELSE Returned(setdefaults(llm.has, llm.obj, SetdefaultKeys, fallback), cs, ios)
        Parse(geo, req, cs, ios) ==
            IF req.has_daily /\ reply.kind = "nulldaily" THEN Raised("AttributeError", cs, ios)
            ELSE IF req.has_daily /\ metrics_raise(reply.daily)
            THEN Raised("TypeError", cs, ios)
            ELSE Format(IF req.has_daily
                        THEN FromDaily(geo, StripSet(location_name(geo), {","}),
                                       req.data_source,
                                       daily_metrics(reply.daily, PyFloat(0)))
                        ELSE FromMonth(MonthName(month_of(start_date))),
                        cs \o << "llm" >>, ios \o << IO("llm:weather", llm.kind) >>)
        Fetch(g, req) ==
            IF IsNone(g.ret)
            THEN Returned(ErrorSummary(destination,
                     "Location '" \o Val(destination) \o "' not found or geocoding failed"),
                     << "get_weather_context" >> \o g.calls, g.io)
            ELSE Parse(Val(g.ret), req,
                       << "get_weather_context" >> \o g.calls
                           \o (IF req.asked THEN << "weather_api" >> ELSE << >>),
                       g.io \o (IF req.asked THEN << IO("weather_api", reply.kind) >>
                                ELSE << >>))
    IN IF ~TruthyStr(destination)
       THEN Returned(ErrorSummary(None, "No destination provided"),
                     << "get_weather_context" >>, << >>)
       ELSE Fetch(geocode_location(destination, geo_reply),
                  weather_request(start_date, now, reply))

-----------------------------------------------------------------------------
(* get_local_events *)

\* one event of the Ticketmaster payload; dates is "absent" (no "dates" key),
\* "null" ("dates" is null), "nostart" ("dates.start" is null) or "ok"
RawEvent(name, url, dates, localDate, dateTime, endDate, info, pleaseNote, venue) ==
    [name |-> name, url |-> url, dates |-> dates, localDate |-> localDate,
     dateTime |-> dateTime, endDate |-> endDate, info |-> info,
     pleaseNote |-> pleaseNote, venue |-> venue]

RawVenue(name, line1, city) == [name |-> name, line1 |-> line1, city |-> city]

JazzFestival ==
    RawEvent(Some("Jazz Festival"), Some("https://tm.example/1"), "ok",
             Some("2026-11-14"), Some("2026-11-14T20:00:00Z"), Some("2026-11-15"),
             Some("Open air concert"), None,
             Some(RawVenue(Some("Bayfront Park"), Some("301 Biscayne Blvd"), Some("Miami"))))

Untitled ==
    RawEvent(None, None, "absent", None, None, None, None, None, None)

MarketTour ==
    RawEvent(None, Some("https://tm.example/2"), "ok", None,
             Some("2026-11-15T10:00:00Z"), None, None, Some("Street market tour"), None)

NullDates ==
    RawEvent(Some("Gala"), None, "null", None, None, None, None, None, None)

NullStart ==
    RawEvent(Some("Gala"), None, "nostart", None, None, None, None, None, None)

\* the outcomes of the Ticketmaster request. kind: "nokey" (TICKETMASTER_KEY is
\* not set), "raise" (the request raises), "badjson", "empty" (the JSON is {}),
\* "null" (the JSON is null), "errors" (an error structure), "data" (a payload
\* with these events). ssl: the first attempt raised SSLError and kind is the
\* outcome of the retry.
EventsReply(kind, ssl, evs) == [kind |-> kind, ssl |-> ssl, events |-> evs]

EventsReplies ==
    { EventsReply("nokey", FALSE, << >>),
      EventsReply("raise", FALSE, << >>),
      EventsReply("raise", TRUE, << >>),
      EventsReply("badjson", FALSE, << >>),
      EventsReply("empty", FALSE, << >>),
      EventsReply("null", TRUE, << >>),
      EventsReply("errors", FALSE, << >>),
      EventsReply("data", FALSE, << >>),
      EventsReply("data", FALSE, << JazzFestival, Untitled >>),
      EventsReply("data", TRUE, << MarketTour >>),
      EventsReply("data", FALSE, << JazzFestival, NullDates >>),
      EventsReply("data", FALSE, << NullStart >>) }

outdoor_keywords ==
    << "festival", "fair", "outdoor", "park", "beach", "street", "market" >>

EventRecord(ti, st, en, ve, ur, de, ws) ==
    [title |-> ti, start |-> st, end |-> en, venue |-> ve, url |-> ur,
     description |-> de, weather_sensitive |-> ws]

\* the body of the loop over the payload's events, for an event it does not
\* raise on
event_record(e) ==
    LET start == IF e.dates = "ok" THEN OrElse(e.localDate, e.dateTime) ELSE None
        end == IF e.dates = "ok" THEN e.endDate ELSE None
        desc == IF TruthyStr(e.info) THEN Val(e.info)
                ELSE IF TruthyStr(e.pleaseNote) THEN Val(e.pleaseNote) ELSE ""
        venue == IF IsNone(e.venue) THEN None
                 ELSE LET v == Val(e.venue)
                          parts == (IF TruthyStr(v.line1) THEN << Val(v.line1) >> ELSE << >>)
                                   \o (IF TruthyStr(v.city) THEN << Val(v.city) >> ELSE << >>)
                      IN Some([name |-> v.name, address |-> Some(Join(parts, ", "))])
        name_desc == lower((IF TruthyStr(e.name) THEN Val(e.name) ELSE "") \o " " \o desc)
    IN EventRecord(e.name, start, end, venue, e.url, Some(desc),
                   \E i \in 1..Len(outdoor_keywords) : Contains(name_desc, outdoor_keywords[i]))

event_raises(e) == e.dates \in {"null", "nostart"}

Truthy(x) == ~IsNone(x) /\ Val(x).t /= 0

get_local_events(destination, start_date, end_date, geo_reply, reply) ==
    LET g == geocode_location(destination, geo_reply)
        cs0 == << "get_local_events" >> \o g.calls
        cs == cs0 \o << "events_api" >> \o (IF reply.ssl THEN << "events_api" >> ELSE << >>)
        ios == g.io \o (IF reply.ssl THEN << IO("events_api", "ssl") >> ELSE << >>)
                    \o << IO("events_api", reply.kind) >>
        evs == reply.events
    IN IF ~TruthyStr(destination) \/ reply.kind = "nokey"
       THEN Returned(<< >>, << "get_local_events" >>, << >>)
       ELSE IF IsNone(g.ret) THEN Returned(<< >>, cs0, g.io)
       ELSE IF ~Truthy(Val(g.ret).latitude) \/ ~Truthy(Val(g.ret).longitude)
       THEN Returned(<< >>, cs0, g.io)
       ELSE IF reply.kind \in {"raise", "badjson"} THEN Returned(<< >>, cs, ios)
       ELSE IF ~reply.ssl /\ reply.kind \in {"empty", "null", "errors"}
       THEN Returned(<< >>, cs, ios)
       ELSE IF reply.kind = "null" THEN Raised("AttributeError", cs, ios)
       ELSE IF \E i \in 1..Len(evs) : event_raises(evs[i])
       THEN Raised("AttributeError", cs, ios)
       ELSE Returned([i \in 1..Len(evs) |-> event_record(evs[i])], cs, ios)

-----------------------------------------------------------------------------
(* activity derivation: step 4 of generate_travel_recommendation *)

\* an activity dict; the keyword fallback's dicts have no "date" key, which
\* reads as None
Activity(type, date) == [type |-> type, date |-> date]

\* the loop over events, were the description to win over the title
activity_of_description_first(ev) ==
    LET name == OrElse(Get(ev, "description"),
                  OrElse(Get(ev, "summary"),
                    OrElse(Get(ev, "title"), Get(ev, "name"))))
        date == OrElse(Get(ev, "date"), OrElse(Get(ev, "start"), Get(ev, "start_date")))
    IN Activity(IF TruthyStr(name) THEN Val(name) ELSE "outing", date)

\* the loop over events
activity_of(ev) ==
    LET name == OrElse(Get(ev, "name"),
                  OrElse(Get(ev, "title"),
                    OrElse(Get(ev, "summary"), Get(ev, "description"))))
        date == OrElse(Get(ev, "date"), OrElse(Get(ev, "start"), Get(ev, "start_date")))
    IN Activity(IF TruthyStr(name) THEN Val(name) ELSE "outing", date)

DinnerKeywords == << "dinner", "party" >>
\* the activity words, were "beach" not among them
HikeKeywords_without_beach == << "hike", "hiking", "gym", "yoga", "run", "swim" >>

HikeKeywords == << "hike", "hiking", "gym", "yoga", "run", "beach", "swim" >>

ContainsAny(s, ks) == \E i \in 1..Len(ks) : Contains(s, ks[i])

\* the fallback block, were its second "if" an "elif"
keyword_fallback_first_match_only(prompt_arg) ==
    IF ContainsAny(lower(prompt_arg), DinnerKeywords) THEN << Activity("dinner", None) >>
    ELSE IF ContainsAny(lower(prompt_arg), HikeKeywords) THEN << Activity("hike", None) >>
    ELSE << >>

\* the fallback block guarded by "if not activities_list"
keyword_fallback(prompt_arg) ==
    LET up == lower(prompt_arg)
    IN (IF ContainsAny(up, DinnerKeywords) THEN << Activity("dinner", None) >> ELSE << >>)
       \o (IF ContainsAny(up, HikeKeywords) THEN << Activity("hike", None) >> ELSE << >>)

\* step 4, were the keyword scan to run whatever the events are
derive_activities_merging(evs, prompt_arg) ==
    [activities |-> [i \in 1..Len(evs) |-> activity_of(evs[i])]
                    \o keyword_fallback(prompt_arg),
     scanned |-> TRUE]

\* step 4: activities is the list built, scanned tells whether the block
\* guarded by "if not activities_list" ran
derive_activities(evs, prompt_arg) ==
    LET Derived(from_events) ==
            [activities |-> IF Len(from_events) = 0 THEN keyword_fallback(prompt_arg)
                            ELSE from_events,
             scanned |-> Len(from_events) = 0]
    IN Derived([i \in 1..Len(evs) |-> activity_of(evs[i])])

-----------------------------------------------------------------------------
(* recommend_outfits of outfit_planner.py, for a list of activity dicts and
   without system_prompt and user_message, as the orchestrator calls it *)

_classify_activity(name) ==
    LET s == lower(name)
    IN IF ContainsAny(s, << "dinner", "restaurant", "party", "formal", "gala" >>)
       THEN "dinner"
       ELSE IF ContainsAny(s, << "hike", "trek", "ride", "surf", "swim", "gym",
                                 "workout", "yoga", "run", "sport", "beach" >>)
       THEN "activity"
       ELSE "outdoor"

\* int(round(n * num / den)) for the planner's factors
Scale(n, num, den) == RoundHalfEven(n * num, den)

CountType(parsed, t) == Cardinality({i \in 1..Len(parsed) : parsed[i].type = t})

EventDays(parsed) == {parsed[i].date : i \in {j \in 1..Len(parsed) : TruthyStr(parsed[j].date)}}

\* the climate the planner infers from the weather dict when none is passed
infer_climate(w) ==
    LET keys == << "avg_temp", "temperature", "temp", "avg_temperature" >>
        found == {i \in 1..Len(keys) : ~IsNone(Get(w, keys[i]))}
        summary == lower(IF TruthyStr(Get(w, "summary")) THEN Val(Get(w, "summary"))
                         ELSE IF TruthyStr(Get(w, "description"))
                         THEN Val(Get(w, "description")) ELSE "")
    IN IF found /= {}
       THEN LET temp == Val(Get(w, keys[Min(found)])).t
            IN IF temp >= 250 THEN "hot" ELSE IF temp <= 100 THEN "cold" ELSE "temperate"
       ELSE IF ContainsAny(summary, << "hot", "warm", "heat" >>) THEN "hot"
       ELSE IF ContainsAny(summary, << "cold", "snow", "freez", "chill" >>) THEN "cold"
       ELSE "temperate"

OutfitOrderFlat ==
    << "outdoor_wears", "dinner_wears", "activity_wears", "total_wears",
       "assumptions", "explanation" >>

\* an outfit recommendation dict: order is the order of its keys, counts the
\* four counts (top-level keys, or the value of "outfit_counts")
Outfit(order, ow, dw, aw, total, assumptions, explanation, reuse_logic, notes) ==
    [order |-> order,
     counts |-> [outdoor_wears |-> ow, dinner_wears |-> dw, activity_wears |-> aw,
                 total_wears |-> total],
     assumptions |-> assumptions, explanation |-> explanation,
     reuse_logic |-> reuse_logic, notes |-> notes]

recommend_outfits(activities, duration_days, intention, climate_arg, laundry_available, w, evs) ==
    LET \* {"type": typ, **a}: the dict's own "type" entry overrides typ
        from_activities ==
            [i \in 1..Len(activities) |-> Activity(activities[i].type, activities[i].date)]
        from_events ==
            [i \in 1..Len(evs) |->
                Activity(_classify_activity(activity_of(evs[i]).type),
                         activity_of(evs[i]).date)]
        parsed == IF Len(from_activities) = 0 THEN from_events ELSE from_activities
        climate == IF IsNone(climate_arg) /\ ~IsNone(w)
                   THEN Some(infer_climate(Val(w))) ELSE climate_arg
        days == Cardinality(EventDays(parsed))
        duration == IF IsNone(duration_days) THEN Max({1, days}) ELSE Val(duration_days)
        outdoor0 == Max({CountType(parsed, "outdoor"), duration})
        dinner0 == Max({CountType(parsed, "dinner"), RoundHalfEven(duration, 2)})
        activity0 == Max({CountType(parsed, "activity"), 0})
        activity1 == IF climate = Some("hot") THEN Scale(activity0, 115, 100) ELSE activity0
        dinner1 == IF climate = Some("cold") THEN Max({1, Scale(dinner0, 9, 10)}) ELSE dinner0
        intent == lower(IF intention = "" THEN "balanced" ELSE intention)
        outdoor2 == CASE intent = "minimal" -> Max({1, Scale(outdoor0, 7, 10)})
                      [] intent = "sustainable" -> Max({1, Scale(outdoor0, 6, 10)})
                      [] intent = "fashion" /\ duration > 1 -> outdoor0 + 1
                      [] OTHER -> outdoor0
        dinner2 == CASE intent = "minimal" -> Max({0, Scale(dinner1, 7, 10)})
                     [] intent = "sustainable" -> Max({0, Scale(dinner1, 6, 10)})
                     [] intent = "fashion" /\ duration > 1 -> dinner1 + 1
                     [] OTHER -> dinner1
        activity2 == CASE intent = "minimal" -> Max({0, Scale(activity1, 8, 10)})
                       [] intent = "sustainable" -> Max({0, Scale(activity1, 7, 10)})
                       [] OTHER -> activity1
        outdoor_wears == Max({0, IF laundry_available THEN Max({1, Scale(outdoor2, 6, 10)})
                                 ELSE outdoor2})
        dinner_wears == Max({0, IF laundry_available THEN Max({0, Scale(dinner2, 6, 10)})
                                ELSE dinner2})
        activity_wears == Max({0, IF laundry_available THEN Max({0, Scale(activity2, 7, 10)})
                                  ELSE activity2})
        total == outdoor_wears + dinner_wears + activity_wears
        assumptions ==
            << "Assumed " \o ToString(duration) \o " day(s) of travel/event.",
               "Outdoor: ~1 per day baseline, reusable when not dirty.",
               "Dinner: counted per explicit evening events; reusable if not soiled.",
               "Activity: one fresh outfit per high-sweat event; may need extras for multi-day activities." >>
            \o (IF laundry_available
                THEN << "Laundry available mid-trip reduces total needed." >> ELSE << >>)
            \o (IF intent \in {"minimal", "sustainable"}
                THEN << "Intent '" \o intent \o "' prioritizes reuse and fewer items." >>
                ELSE << >>)
        explanation ==
            Join(<< "Outdoor wears: " \o ToString(outdoor_wears) \o " (base + events)",
                    "Dinner wears: " \o ToString(dinner_wears) \o " (events & formality)",
                    "Activity wears: " \o ToString(activity_wears)
                        \o " (per high-sweat activity)",
                    "Total outfits recommended: " \o ToString(total) >>, "\n")
    IN Outfit(OutfitOrderFlat, outdoor_wears, dinner_wears, activity_wears, total,
              assumptions, Some(explanation), None, None)

-----------------------------------------------------------------------------
(* recommend_outfits_llm of outfit_recommendation.py *)

_normalize_activities(activities) ==
    [i \in 1..Len(activities) |->
        Activity(IF activities[i].type /= "" THEN activities[i].type
                 ELSE _classify_activity(""), activities[i].date)]

OutfitOrderNested == << "outfit_counts", "assumptions", "explanation" >>

\* int(x or 0) of a JSON number or null
IntOr0(x) ==
    IF IsNone(x) THEN 0
    ELSE IF Val(x).t >= 0 THEN Val(x).t \div 10 ELSE 0 - ((0 - Val(x).t) \div 10)

MaxAssumptions == 10

IsBlank(a) == strip(a) = ""

RECURSIVE StripNonBlank(_)
StripNonBlank(xs) ==
    IF Len(xs) = 0 THEN << >>
    ELSE (IF IsBlank(Head(xs)) THEN << >> ELSE << strip(Head(xs)) >>)
         \o StripNonBlank(Tail(xs))

AppendMissing(order, keys) ==
    order \o SelectSeq(keys, LAMBDA k : \A i \in 1..Len(order) : order[i] /= k)

\* _post_validate, were the total of the reply kept as given
_post_validate_total_unraised(result, has_counts) ==
    LET oc == result.counts
        ow == Max({IF has_counts THEN IntOr0(oc.outdoor_wears) ELSE 0, 0})
        dw == Max({IF has_counts THEN IntOr0(oc.dinner_wears) ELSE 0, 0})
        aw == Max({IF has_counts THEN IntOr0(oc.activity_wears) ELSE 0, 0})
        given == IF has_counts THEN IntOr0(oc.total_wears) ELSE 0
        total == IF given /= 0 THEN given ELSE ow + dw + aw
        kept == StripNonBlank(result.assumptions)
        assumptions == IF Len(kept) > MaxAssumptions THEN SubSeq(kept, 1, MaxAssumptions)
                       ELSE kept
        explanation ==
            IF TruthyStr(result.explanation) THEN result.explanation
            ELSE Some("Counts derived from activities, duration, intention, climate, and laundry settings with reasonable reuse.")
    IN Outfit(AppendMissing(result.order, OutfitOrderNested), ow, dw, aw, total,
              assumptions, explanation, result.reuse_logic, result.notes)

\* _post_validate of a JSON object; has_counts tells whether "outfit_counts"
\* holds an object, and a count that is None is missing or null
_post_validate(result, has_counts) ==
    LET oc == result.counts
        ow == Max({IF has_counts THEN IntOr0(oc.outdoor_wears) ELSE 0, 0})
        dw == Max({IF has_counts THEN IntOr0(oc.dinner_wears) ELSE 0, 0})
        aw == Max({IF has_counts THEN IntOr0(oc.activity_wears) ELSE 0, 0})
        given == IF has_counts THEN IntOr0(oc.total_wears) ELSE 0
        total == Max({IF given /= 0 THEN given ELSE ow + dw + aw, ow + dw + aw})
        kept == StripNonBlank(result.assumptions)
        assumptions == IF Len(kept) > MaxAssumptions THEN SubSeq(kept, 1, MaxAssumptions)
                       ELSE kept
        explanation ==
            IF TruthyStr(result.explanation) THEN result.explanation
            ELSE Some("Counts derived from activities, duration, intention, climate, and laundry settings with reasonable reuse.")
    IN Outfit(AppendMissing(result.order, OutfitOrderNested), ow, dw, aw, total,
              assumptions, explanation, result.reuse_logic, result.notes)

\* what _post_validate returns for JSON that is no object
InvalidOutput ==
    Outfit(OutfitOrderNested, 0, 0, 0, 0,
           << "Fallback applied due to invalid LLM output." >>,
           Some("Defaulted to zeros; please retry."), None, None)

PyBool(b) == IF b THEN "True" ELSE "False"

\* the except branch: the arithmetic fallback
outfit_fallback(activities, duration_days, intention, climate_arg, laundry_available) ==
    LET parsed == _normalize_activities(activities)
        outdoor_events == CountType(parsed, "outdoor")
        dinner_events == CountType(parsed, "dinner")
        activity_events == CountType(parsed, "activity")
        days == IF ~IsNone(duration_days) /\ Val(duration_days) /= 0
                THEN Val(duration_days)
                ELSE Max({1, Cardinality(EventDays(parsed))})
        outdoor0 == Max({outdoor_events, days})
        dinner0 == Max({dinner_events, RoundHalfEven(6 * days, 10)})
        activity0 == Max({activity_events, 0})
        intent == lower(IF intention = "" THEN "balanced" ELSE intention)
        outdoor1 == CASE intent = "minimal" -> Scale(outdoor0, 7, 10)
                      [] intent = "fashion" -> outdoor0 + 1
                      [] intent = "sustainable" -> Scale(outdoor0, 6, 10)
                      [] OTHER -> outdoor0
        dinner1 == CASE intent = "minimal" -> Scale(dinner0, 7, 10)
                     [] intent = "fashion" -> dinner0 + 1
                     [] intent = "sustainable" -> Scale(dinner0, 6, 10)
                     [] OTHER -> dinner0
        activity1 == CASE intent = "minimal" -> Scale(activity0, 8, 10)
                       [] intent = "sustainable" -> Scale(activity0, 7, 10)
                       [] OTHER -> activity0
        base_outdoor == IF laundry_available THEN Max({Scale(outdoor1, 6, 10), 0}) ELSE outdoor1
        base_dinner == IF laundry_available THEN Max({Scale(dinner1, 7, 10), 0}) ELSE dinner1
        base_activity == IF laundry_available THEN Max({Scale(activity1, 7, 10), 0}) ELSE activity1
        total == Max({base_outdoor, 0}) + Max({base_dinner, 0}) + Max({base_activity, 0})
    IN Outfit(OutfitOrderNested, Max({base_outdoor, 0}), Max({base_dinner, 0}),
              Max({base_activity, 0}), total,
              << "Fallback arithmetic used due to LLM error",
                 "Days=" \o ToString(days) \o ", OutdoorEvents=" \o ToString(outdoor_events)
                    \o ", DinnerEvents=" \o ToString(dinner_events)
                    \o ", ActivityEvents=" \o ToString(activity_events),
                 "Intention=" \o intention \o ", Laundry=" \o PyBool(laundry_available)
                    \o ", Climate=" \o (IF IsNone(climate_arg) THEN "None" ELSE Val(climate_arg)) >>,
              Some("Computed via simple heuristics as a backup. Try again for LLM-driven reasoning."),
              None, None)

\* the replies of the outfit LLM: "raise" (the call raises, or its output is
\* no JSON), "nondict" (JSON that is no object), "badcount" (a count int()
\* rejects), "json" (an object: has_counts and the fields of obj, its counts
\* JSON numbers or None)
OutfitReply(kind, has_counts, obj) == [kind |-> kind, has_counts |-> has_counts, obj |-> obj]

NoOutfit == Outfit(<< >>, None, None, None, None, << >>, None, None, None)

LLMOutfitReplies ==
    { OutfitReply("raise", FALSE, NoOutfit),
      OutfitReply("nondict", FALSE, NoOutfit),
      OutfitReply("badcount", TRUE, NoOutfit),
      OutfitReply("json", FALSE, NoOutfit),
      OutfitReply("json", TRUE,
          Outfit(<< "outfit_counts", "assumptions", "explanation", "notes" >>,
                 Some(PyInt(2)), Some(PyInt(1)), Some(PyFloat(-15)), Some(PyInt(2)),
                 << " Two days ", "  ", "It's warm" >>, Some("Pack \"light\""),
                 None, Some("n/a"))),
      OutfitReply("json", TRUE,
          Outfit(<< "outfit_counts", "assumptions" >>,
                 Some(PyInt(1)), Some(PyInt(1)), Some(PyInt(1)), Some(PyInt(2)),
                 << "a", "b", " ", "c", "d", "e", "f", "g", "h", "i", "j", "k", "l" >>,
                 None, None, None)) }

\* recommend_outfits_llm, were int() of a count to run outside the try
recommend_outfits_llm_counts_unguarded(activities, duration_days, intention, climate_arg, laundry_available, llm) ==
    LET cs == << "recommend_outfits_llm", "llm" >>
        ios == << IO("llm:outfit", llm.kind) >>
    IN IF llm.kind = "raise"
       THEN Returned(outfit_fallback(activities, duration_days, intention, climate_arg,
                                     laundry_available), cs, ios)
       ELSE IF llm.kind = "badcount" THEN Raised("ValueError", cs, ios)
       ELSE IF llm.kind = "nondict" THEN Returned(InvalidOutput, cs, ios)
       ELSE Returned(_post_validate(llm.obj, llm.has_counts), cs, ios)

recommend_outfits_llm(activities, duration_days, intention, climate_arg, laundry_available, llm) ==
    LET cs == << "recommend_outfits_llm", "llm" >>
        ios == << IO("llm:outfit", llm.kind) >>
    IN IF llm.kind \in {"raise", "badcount"}
       THEN Returned(outfit_fallback(activities, duration_days, intention, climate_arg,
                                     laundry_available), cs, ios)
       ELSE IF llm.kind = "nondict" THEN Returned(InvalidOutput, cs, ios)
       ELSE Returned(_post_validate(llm.obj, llm.has_counts), cs, ios)

-----------------------------------------------------------------------------
(* repr() of an outfit recommendation, as the f-string of the query formats it *)

HasChar(s, c) == \E i \in 1..Len(s) : Char(s, i) = c

EscapeChar(c, q) ==
    CASE c = "\\" -> "\\\\"
      [] c = "\n" -> "\\n"
      [] c = "\t" -> "\\t"
      [] c = "\r" -> "\\r"
      [] c = q -> "\\" \o q
      [] OTHER -> c

\* every character of s escaped, halving s to keep the recursion shallow
RECURSIVE Escape(_, _)
Escape(s, q) ==
    IF Len(s) = 0 THEN ""
    ELSE IF Len(s) = 1 THEN EscapeChar(s, q)
    ELSE LET h == Len(s) \div 2
         IN Escape(SubSeq(s, 1, h), q) \o Escape(SubSeq(s, h + 1, Len(s)), q)

repr_str(s) ==
    LET q == IF HasChar(s, "'") /\ ~HasChar(s, "\"") THEN "\"" ELSE "'"
    IN q \o Escape(s, q) \o q

repr_opt(x) == IF IsNone(x) THEN "None" ELSE repr_str(Val(x))

repr_counts(c) ==
    "{'outdoor_wears': " \o ToString(c.outdoor_wears)
    \o ", 'dinner_wears': " \o ToString(c.dinner_wears)
    \o ", 'activity_wears': " \o ToString(c.activity_wears)
    \o ", 'total_wears': " \o ToString(c.total_wears) \o "}"

repr_entry(o, k) ==
    repr_str(k) \o ": " \o
    (CASE k = "outfit_counts" -> repr_counts(o.counts)
       [] k \in DOMAIN o.counts -> ToString(o.counts[k])
       [] k = "assumptions" ->
            "[" \o Join([i \in 1..Len(o.assumptions) |-> repr_str(o.assumptions[i])], ", ") \o "]"
       [] OTHER -> repr_opt(o[k]))

repr_outfit(o) ==
    "{" \o Join([i \in 1..Len(o.order) |-> repr_entry(o, o.order[i])], ", ") \o "}"

-----------------------------------------------------------------------------
(* get_raw_products_from_rag *)

CatchAll == "context: any products for travel; store details based on destination and weather"

\* the weather clause's attributes, were a number tested for truth and not
\* against None
w_parts_truthy(w) ==
    (IF Truthy(Get(w, "avg_high_c"))
     THEN << "avg_high_c: " \o pystr(Val(Get(w, "avg_high_c"))) \o " C" >> ELSE << >>)
    \o (IF Truthy(Get(w, "avg_low_c"))
        THEN << "avg_low_c: " \o pystr(Val(Get(w, "avg_low_c"))) \o " C" >> ELSE << >>)
    \o (IF Truthy(Get(w, "precipitation_chance"))
        THEN << "precipitation_chance: " \o pystr(Val(Get(w, "precipitation_chance"))) \o "%" >>
        ELSE << >>)
    \o (IF TruthyStr(Get(w, "condition"))
        THEN << "condition: " \o Val(Get(w, "condition")) >> ELSE << >>)

\* the weather clause's attributes
w_parts(w) ==
    (IF ~IsNone(Get(w, "avg_high_c"))
     THEN << "avg_high_c: " \o pystr(Val(Get(w, "avg_high_c"))) \o " C" >> ELSE << >>)
    \o (IF ~IsNone(Get(w, "avg_low_c"))
        THEN << "avg_low_c: " \o pystr(Val(Get(w, "avg_low_c"))) \o " C" >> ELSE << >>)
    \o (IF ~IsNone(Get(w, "precipitation_chance"))
        THEN << "precipitation_chance: " \o pystr(Val(Get(w, "precipitation_chance"))) \o "%" >>
        ELSE << >>)
    \o (IF TruthyStr(Get(w, "condition"))
        THEN << "condition: " \o Val(Get(w, "condition")) >> ELSE << >>)

\* the list parts of _build_composite_query; w and outfit are None or a
\* non-empty dict
query_parts(destination, season_hint, w, outfit, prompt_arg) ==
    (IF TruthyStr(destination) THEN << "destination: " \o Val(destination) >> ELSE << >>)
    \o (IF TruthyStr(season_hint) THEN << "season: " \o Val(season_hint) >> ELSE << >>)
    \o (IF ~IsNone(w) /\ Len(w_parts(Val(w))) > 0
        THEN << "weather: " \o Join(w_parts(Val(w)), ", ") >> ELSE << >>)
    \o (IF ~IsNone(outfit)
        THEN << "recommend_outfits: " \o repr_outfit(Val(outfit)) >> ELSE << >>)
    \o (IF TruthyStr(prompt_arg) THEN << "user_prompt: " \o Val(prompt_arg) >> ELSE << >>)
    \o << CatchAll >>

_build_composite_query(destination, season_hint, w, outfit, prompt_arg) ==
    Join(query_parts(destination, season_hint, w, outfit, prompt_arg), " | ")

\* one search result: a dict-like result carries its document, any other
\* result normalises to {}
Doc(id) == [id |-> Some(id)]
EmptyDoc == [id |-> None]
Hit(id) == [is_dict |-> TRUE, doc |-> Doc(id)]
Other == [is_dict |-> FALSE, doc |-> EmptyDoc]

_doc_to_dict(r) == IF r.is_dict THEN r.doc ELSE EmptyDoc

\* the outcomes of the search service: init (the client constructor raises),
\* and for each of the two searches whether it raises and what it returns
SearchReply(init_fails, sem_raises, sem, simple_raises, simple) ==
    [init_fails |-> init_fails, sem_raises |-> sem_raises, semantic |-> sem,
     simple_raises |-> simple_raises, simple |-> simple]

SixHits == << Hit("P1"), Hit("P2"), Other, Hit("P4"), Hit("P5"), Hit("P6") >>

SearchReplies ==
    { SearchReply(TRUE, FALSE, << >>, FALSE, << >>),
      SearchReply(FALSE, FALSE, << Hit("P1"), Hit("P2") >>, FALSE, << Hit("P9") >>),
      SearchReply(FALSE, FALSE, SixHits, TRUE, << >>),
      SearchReply(FALSE, FALSE, << >>, FALSE, << Hit("P3") >>),
      SearchReply(FALSE, FALSE, << >>, FALSE, << >>),
      SearchReply(FALSE, TRUE, << >>, FALSE, SixHits),
      SearchReply(FALSE, TRUE, << >>, TRUE, << >>) }

\* _try_search, were the simple search issued whatever the semantic one gave
_try_search_always_simple(query_text, reply) ==
    Returned(IF ~reply.sem_raises /\ Len(reply.semantic) > 0 THEN reply.semantic
             ELSE IF reply.simple_raises THEN << >> ELSE reply.simple,
             << "search:semantic", "search:simple" >>,
             << IO("search:semantic", query_text), IO("search:simple", query_text) >>)

_try_search(query_text, reply) ==
    IF ~reply.sem_raises /\ Len(reply.semantic) > 0
    THEN Returned(reply.semantic, << "search:semantic" >>,
                  << IO("search:semantic", query_text) >>)
    ELSE Returned(IF reply.simple_raises THEN << >> ELSE reply.simple,
                  << "search:semantic", "search:simple" >>,
                  << IO("search:semantic", query_text), IO("search:simple", query_text) >>)

\* get_raw_products_from_rag without the try around the client's construction
get_raw_products_from_rag_init_unguarded(destination, season_hint, w, prompt_arg, outfit, top_k, reply) ==
    LET Kept(results) == SubSeq(results, 1, Min({top_k, Len(results)}))
        Normalized(kept) == [i \in 1..Len(kept) |-> _doc_to_dict(kept[i])]
        Found(query, found) ==
            [exc |-> None, ret |-> Normalized(Kept(found.ret)),
             calls |-> << "get_raw_products_from_rag" >> \o found.calls,
             io |-> found.io, query |-> Some(query)]
        Search(query) == Found(query, _try_search(query, reply))
    IN IF reply.init_fails
       THEN [exc |-> Some("ValueError"), ret |-> << >>,
             calls |-> << "get_raw_products_from_rag" >>,
             io |-> << IO("search:init", "raise") >>, query |-> None]
       ELSE Search(_build_composite_query(destination, season_hint, w, outfit, prompt_arg))

\* get_raw_products_from_rag without the [:top_k] slice of the results
get_raw_products_from_rag_unsliced(destination, season_hint, w, prompt_arg, outfit, top_k, reply) ==
    LET Normalized(kept) == [i \in 1..Len(kept) |-> _doc_to_dict(kept[i])]
        Found(query, found) ==
            [exc |-> None, ret |-> Normalized(found.ret),
             calls |-> << "get_raw_products_from_rag" >> \o found.calls,
             io |-> found.io, query |-> Some(query)]
        Search(query) == Found(query, _try_search(query, reply))
    IN IF reply.init_fails
       THEN [exc |-> None, ret |-> << >>, calls |-> << "get_raw_products_from_rag" >>,
             io |-> << IO("search:init", "raise") >>, query |-> None]
       ELSE Search(_build_composite_query(destination, season_hint, w, outfit, prompt_arg))

get_raw_products_from_rag(destination, season_hint, w, prompt_arg, outfit, top_k, reply) ==
    LET Kept(results) == SubSeq(results, 1, Min({top_k, Len(results)}))
        Normalized(kept) == [i \in 1..Len(kept) |-> _doc_to_dict(kept[i])]
        Found(query, found) ==
            [exc |-> None, ret |-> Normalized(Kept(found.ret)),
             calls |-> << "get_raw_products_from_rag" >> \o found.calls,
             io |-> found.io, query |-> Some(query)]
        Search(query) == Found(query, _try_search(query, reply))
    IN IF reply.init_fails
       THEN [exc |-> None, ret |-> << >>, calls |-> << "get_raw_products_from_rag" >>,
             io |-> << IO("search:init", "raise") >>, query |-> None]
       ELSE Search(_build_composite_query(destination, season_hint, w, outfit, prompt_arg))

-----------------------------------------------------------------------------
(* generate_formal_plan *)

\* the outcomes of the final LLM call: it raises with a message, or its
\* message content is a text or None
SynthesisReplies ==
    { [kind |-> "raise", text |-> "Request timed out."],
      [kind |-> "text", text |-> "Your formal travel plan"],
      [kind |-> "null", text |-> ""] }

\* generate_formal_plan without its except branch
generate_formal_plan_unguarded(reply) ==
    LET cs == << "generate_formal_plan", "llm" >>
        ios == << IO("llm:plan", reply.kind) >>
    IN CASE reply.kind = "raise" -> Raised("APITimeoutError", cs, ios)
         [] reply.kind = "text" -> Returned(Some(reply.text), cs, ios)
         [] OTHER -> Returned(None, cs, ios)

generate_formal_plan(reply) ==
    LET cs == << "generate_formal_plan", "llm" >>
        ios == << IO("llm:plan", reply.kind) >>
    IN CASE reply.kind = "raise" ->
                Returned(Some("Error generating plan: " \o reply.text), cs, ios)
         [] reply.kind = "text" -> Returned(Some(reply.text), cs, ios)
         [] OTHER -> Returned(None, cs, ios)

\* f"{plan}"
format_plan(value) == IF IsNone(value) THEN "None" ELSE Val(value)

-----------------------------------------------------------------------------
(* generate_travel_recommendation: one run, a stage per step *)

Variants == {"main", "plain"}

\* requests without digits and month names, which the date code of
\* parse_travel_intent modelled here covers
Prompts ==
    { "", "   ", "brunch", "Dinner in Paris", "beach party in Goa tomorrow",
      "I'm travelling to Miami for a beach vacation next weekend", "Rome last week" }

Today == DaysFromCivil(2026, 11, 5)

\* the replies the run draws for each external call
RunGeoReplies == {r \in GeoReplies : r.kind \in {"raise", "found"}}
RunWeatherReplies ==
    {r \in WeatherReplies : r.kind = "timeout" \/ Len(r.daily.temperature_2m_max) > 0}
RunLLMWeatherReplies ==
    {r \in LLMWeatherReplies : r.kind \in {"raise", "badjson"} \/ r.has /= {}}
RunEventsReplies ==
    {r \in EventsReplies :
        \/ (r.kind \in {"nokey", "raise"} /\ ~r.ssl)
        \/ (r.kind = "data" /\ \A i \in 1..Len(r.events) : r.events[i].dates /= "nostart")}
RunLLMOutfitReplies ==
    {r \in LLMOutfitReplies :
        (r.kind = "raise" \/ r.has_counts) /\ Len(r.obj.assumptions) <= MaxAssumptions}
RunSearchReplies == SearchReplies

top_k == 5

Init ==
    /\ variant \in Variants
    /\ user_prompt \in Prompts
    /\ today = Today
    /\ pc = "step1"
    /\ parsed_intent = None
    /\ weather = None
    /\ events = None
    /\ activities_list = None
    /\ outfit_recommendations = None
    /\ products = None
    /\ composite_query = None
    /\ final_output = None
    /\ exc = None
    /\ calls = << >>
    /\ io = << >>
    /\ kwscan = FALSE
    /\ stage_log = << >>
    /\ search_reply = None
    /\ plan = None
    /\ state = None
    /\ updates = None

\* the orchestrator after a stage call with result r: an exception leaves
\* generate_travel_recommendation, a return moves it to the next statement
After(r, next) ==
    /\ pc' = IF IsNone(r.exc) THEN next ELSE "raised"
    /\ exc' = r.exc
    /\ calls' = calls \o r.calls
    /\ io' = io \o r.io

IntentField(k) == Get(Val(parsed_intent), k)

\* [STEP 1] parse_travel_intent (main.py) or extract_with_llm
Step1_ParseIntent ==
    /\ pc = "step1"
    /\ \E r \in IF variant = "main"
                THEN {parse_travel_intent(user_prompt, today, llm) :
                        llm \in LLMDestinationReplies}
                ELSE {extract_with_llm(user_prompt, today, llm) : llm \in LLMIntentReplies} :
          /\ After(r, "step2")
          /\ parsed_intent' = IF IsNone(r.exc) THEN Some(r.ret) ELSE None
    /\ UNCHANGED << state, updates, variant, user_prompt, today, weather, events, activities_list,
                    outfit_recommendations, products, composite_query, final_output,
                    kwscan, stage_log,
                    search_reply, plan >>

\* the line printed after step 2 when the summary holds an error
weather_warning(r) ==
    IF IsNone(r.exc) /\ TruthyStr(Get(r.ret, "error"))
    THEN << "[WARNING] Weather fetch: " \o Val(Get(r.ret, "error")) >>
    ELSE << >>

\* [STEP 2] get_weather_context
Step2_FetchWeather ==
    /\ pc = "step2"
    /\ \E r \in IF variant = "main"
                THEN {get_weather_context(IntentField("destination"),
                          IntentField("start_date"), IntentField("end_date"), today, g, w) :
                        g \in RunGeoReplies, w \in RunWeatherReplies}
                ELSE {get_weather_context_llm(IntentField("destination"),
                          IntentField("start_date"), IntentField("end_date"), today, g, w, l) :
                        g \in RunGeoReplies, w \in RunWeatherReplies,
                        l \in RunLLMWeatherReplies} :
          /\ After(r, "step3")
          /\ weather' = IF IsNone(r.exc) THEN Some(r.ret) ELSE None
          /\ stage_log' = stage_log \o weather_warning(r)
    /\ UNCHANGED << state, updates, variant, user_prompt, today, parsed_intent, events, activities_list,
                    outfit_recommendations, products, composite_query, final_output,
                    kwscan,
                    search_reply, plan >>

\* [STEP 3] get_local_events
Step3_FetchEvents ==
    /\ pc = "step3"
    /\ \E r \in {get_local_events(IntentField("destination"), IntentField("start_date"),
                                  IntentField("end_date"), g, e) :
                    g \in RunGeoReplies, e \in RunEventsReplies} :
          /\ After(r, "step4")
          /\ events' = IF IsNone(r.exc) THEN Some(r.ret) ELSE None
    /\ UNCHANGED << state, updates, variant, user_prompt, today, parsed_intent, weather, activities_list,
                    outfit_recommendations, products, composite_query, final_output,
                    kwscan, stage_log,
                    search_reply, plan >>

\* [STEP 4] the activities list built from events and, when that is empty,
\* from the prompt
Step4_DeriveActivities ==
    /\ pc = "step4"
    /\ \E r \in {derive_activities(Val(events), user_prompt)} :
          /\ activities_list' = Some(r.activities)
          /\ kwscan' = r.scanned
    /\ pc' = "outfits"
    /\ UNCHANGED << state, updates, variant, user_prompt, today, parsed_intent, weather, events,
                    outfit_recommendations, products, composite_query, final_output,
                    exc, calls, io, stage_log,
                    search_reply, plan >>

\* recommend_outfits (main.py) or recommend_outfits_llm
\* step 4, were the planner to store the duration it assumed in the intent
Step4_PlanOutfits_storing_duration ==
    /\ pc = "outfits"
    /\ \E r \in IF variant = "main"
                THEN {Returned(recommend_outfits(Val(activities_list),
                                  IntentField("duration_days"), "balanced", None, FALSE,
                                  weather, Val(events)),
                               << "recommend_outfits" >>, << >>)}
                ELSE {recommend_outfits_llm(Val(activities_list),
                          IntentField("duration_days"), "balanced", None, FALSE, l) :
                        l \in RunLLMOutfitReplies} :
          /\ After(r, "step5")
          /\ outfit_recommendations' = Some(r.ret)
    /\ parsed_intent' = IF IsNone(IntentField("duration_days"))
                        THEN Some([Val(parsed_intent) EXCEPT !.duration_days = Some(1)])
                        ELSE parsed_intent
    /\ UNCHANGED << state, updates, variant, user_prompt, today, weather, events,
                    activities_list, products, composite_query, final_output, kwscan, stage_log,
                    search_reply, plan >>

Step4_PlanOutfits ==
    /\ pc = "outfits"
    /\ \E r \in IF variant = "main"
                THEN {Returned(recommend_outfits(Val(activities_list),
                                  IntentField("duration_days"), "balanced", None, FALSE,
                                  weather, Val(events)),
                               << "recommend_outfits" >>, << >>)}
                ELSE {recommend_outfits_llm(Val(activities_list),
                          IntentField("duration_days"), "balanced", None, FALSE, l) :
                        l \in RunLLMOutfitReplies} :
          /\ After(r, "step5")
          /\ outfit_recommendations' = Some(r.ret)
    /\ UNCHANGED << state, updates, variant, user_prompt, today, parsed_intent, weather, events,
                    activities_list, products, composite_query, final_output, kwscan, stage_log,
                    search_reply, plan >>

\* [STEP 5] get_raw_products_from_rag
Step5_RetrieveProducts ==
    /\ pc = "step5"
    /\ \E s \in RunSearchReplies :
       \E r \in {get_raw_products_from_rag(IntentField("destination"),
                     IntentField("season_hint"), weather, Some(user_prompt),
                     outfit_recommendations, top_k, s)} :
          /\ After(r, "step6")
          /\ search_reply' = Some(s)
          /\ products' = Some(r.ret)
          /\ composite_query' = r.query
    /\ UNCHANGED << state, updates, variant, user_prompt, today, parsed_intent, weather, events,
                    activities_list, outfit_recommendations, final_output, kwscan, stage_log, plan >>

\* [STEP 6] build_llm_context, generate_formal_plan and the return
\* step 6, were the context built from the first product of the list
Step6_Synthesize_first_product ==
    /\ pc = "step6"
    /\ \E r \in {generate_formal_plan(s) : s \in SynthesisReplies} :
          IF Val(products) = << >>
          THEN /\ pc' = "raised"
               /\ exc' = Some("IndexError")
               /\ calls' = calls \o << "build_llm_context" >>
               /\ UNCHANGED << io, plan, final_output >>
          ELSE /\ pc' = "done"
               /\ calls' = calls \o << "build_llm_context" >> \o r.calls
               /\ io' = io \o r.io
               /\ plan' = r.ret
               /\ final_output' = Some(format_plan(r.ret))
               /\ UNCHANGED exc
    /\ UNCHANGED << state, updates, variant, user_prompt, today, parsed_intent, weather, events,
                    activities_list, outfit_recommendations, products, composite_query,
                    kwscan, stage_log, search_reply >>

Step6_Synthesize ==
    /\ pc = "step6"
    /\ \E r \in {generate_formal_plan(s) : s \in SynthesisReplies} :
          /\ pc' = "done"
          /\ calls' = calls \o << "build_llm_context" >> \o r.calls
          /\ io' = io \o r.io
          /\ plan' = r.ret
          /\ final_output' = Some(format_plan(r.ret))
    /\ UNCHANGED << state, updates, variant, user_prompt, today, parsed_intent, weather, events,
                    activities_list, outfit_recommendations, products, composite_query,
                    exc, kwscan, stage_log,
                    search_reply >>

Next ==
    \/ Step1_ParseIntent
    \/ Step2_FetchWeather
    \/ Step3_FetchEvents
    \/ Step4_DeriveActivities
    \/ Step4_PlanOutfits
    \/ Step5_RetrieveProducts
    \/ Step6_Synthesize

Spec == Init /\ [][Next]_vars

-----------------------------------------------------------------------------
(* _build_composite_query on its own: one call on inputs drawn from bounded
   sets *)

\* the largest whole temperature a drawn summary holds
MaxDegrees == 1

QueryDestinations == {None, Some(""), Some("Goa")}
QuerySeasons == {None, Some("winter")}

\* a number of the summary: None, an int or a float, zero among them
QueryNumbers ==
    {None} \cup {Some(PyInt(d)) : d \in 0..MaxDegrees}
           \cup {Some(PyFloat(10 * d + 5)) : d \in 0..MaxDegrees}

\* the summaries drawn: the fields the weather clause reads, and no summary
QueryWeathers ==
    {None} \cup
    {Some([avg_high_c |-> hi, avg_low_c |-> lo, precipitation_chance |-> chance,
           condition |-> cond, data_source |-> Some("forecast")]) :
        hi \in QueryNumbers, lo \in {None, Some(PyFloat(204))},
        chance \in {None, Some(PyInt(0))}, cond \in {None, Some(""), Some("Sunny")}}

QueryOutfits ==
    {None, Some(recommend_outfits(<< Activity("dinner", None) >>, Some(2), "balanced",
                                  None, FALSE, None, << >>))}

QueryPrompts == {"", "beach trip"}

InitQuery ==
    /\ variant = "main"
    /\ user_prompt \in QueryPrompts
    /\ today = Today
    /\ pc = "query_in"
    /\ parsed_intent \in {Some([destination |-> d, season_hint |-> h]) :
                            d \in QueryDestinations, h \in QuerySeasons}
    /\ weather \in QueryWeathers
    /\ events = None
    /\ activities_list = None
    /\ outfit_recommendations \in QueryOutfits
    /\ products = None
    /\ composite_query = None
    /\ final_output = None
    /\ exc = None
    /\ calls = << >>
    /\ io = << >>
    /\ kwscan = FALSE
    /\ stage_log = << >>
    /\ search_reply = None
    /\ plan = None
    /\ state = None
    /\ updates = None

BuildQuery ==
    /\ pc = "query_in"
    /\ composite_query' = Some(_build_composite_query(IntentField("destination"),
                                  IntentField("season_hint"), weather,
                                  outfit_recommendations, Some(user_prompt)))
    /\ pc' = "query_out"
    /\ UNCHANGED << state, updates, variant, user_prompt, today, parsed_intent, weather, events,
                    activities_list, outfit_recommendations, products, final_output,
                    exc, calls, io, kwscan, stage_log,
                    search_reply, plan >>

NextQuery == BuildQuery

SpecQuery == InitQuery /\ [][NextQuery]_vars

-----------------------------------------------------------------------------
(* recommend_outfits_llm on its own: the arguments drawn, then the call *)

OutfitClimates == {None, Some("hot"), Some("cold")}

InitOutfit ==
    /\ variant = "plain"
    /\ user_prompt = ""
    /\ today = Today
    /\ pc = "outfit_in"
    /\ parsed_intent \in {Some([duration_days |-> d, intention |-> i, climate |-> c,
                                laundry_available |-> l]) :
                            d \in {None, Some(0), Some(3)},
                            i \in {"", "balanced", "Minimal", "fashion", "sustainable"},
                            c \in OutfitClimates, l \in BOOLEAN}
    /\ weather = None
    /\ events = None
    /\ activities_list \in
         {Some(a) : a \in {<< >>, << Activity("dinner", None) >>,
                           << Activity("hike", Some("2026-11-14")),
                              Activity("dinner", Some("2026-11-15")),
                              Activity("activity", Some("2026-11-15")),
                              Activity("", None) >>}}
    /\ outfit_recommendations = None
    /\ products = None
    /\ composite_query = None
    /\ final_output = None
    /\ exc = None
    /\ calls = << >>
    /\ io = << >>
    /\ kwscan = FALSE
    /\ stage_log = << >>
    /\ search_reply = None
    /\ plan = None
    /\ state = None
    /\ updates = None

PlanOutfit ==
    /\ pc = "outfit_in"
    /\ \E r \in {recommend_outfits_llm(Val(activities_list), IntentField("duration_days"),
                     Val(parsed_intent).intention, IntentField("climate"),
                     Val(parsed_intent).laundry_available, l) : l \in LLMOutfitReplies} :
          /\ After(r, "outfit_out")
          /\ outfit_recommendations' = IF IsNone(r.exc) THEN Some(r.ret) ELSE None
    /\ UNCHANGED << state, updates, variant, user_prompt, today, parsed_intent, weather, events,
                    activities_list, products, composite_query, final_output, kwscan,
                    stage_log, search_reply, plan >>

\* recommend_outfits of outfit_planner.py on the same arguments, with no
\* weather and no events
PlanOutfitRuleBased ==
    /\ pc = "outfit_in"
    /\ \E r \in {Returned(recommend_outfits(Val(activities_list),
                      IntentField("duration_days"), Val(parsed_intent).intention,
                      IntentField("climate"), Val(parsed_intent).laundry_available,
                      None, << >>),
                   << "recommend_outfits" >>, << >>)} :
          /\ After(r, "outfit_out")
          /\ outfit_recommendations' = Some(r.ret)
    /\ UNCHANGED << state, updates, variant, user_prompt, today, parsed_intent, weather, events,
                    activities_list, products, composite_query, final_output, kwscan,
                    stage_log, search_reply, plan >>

NextOutfit == PlanOutfit \/ PlanOutfitRuleBased

SpecOutfit == InitOutfit /\ [][NextOutfit]_vars

-----------------------------------------------------------------------------

(* parse_travel_intent on its own: a request and a current day drawn, then
   the call *)

IntentPrompts ==
    { "Goa next weekend", "Bali this weekend", "Oslo next week", "Oslo this week",
      "Rome last week", "Paris tomorrow", "Paris tomorrow, booked on 2026-01-15",
      "Rome 2026-12-01 to 2026-12-10", "Goa 2026-12-10 to 2026-12-01",
      "3 days in Rome from 2026-12-24", "2 weeks in Japan in may", "december in Oslo",
      "Lima next weekend until 2026-12-01", "5 nights in Cairo today" }

InitIntent ==
    /\ variant = "main"
    /\ user_prompt \in IntentPrompts
    /\ today \in {Today + d : d \in 0..6}
    /\ pc = "intent_in"
    /\ parsed_intent = None
    /\ weather = None
    /\ events = None
    /\ activities_list = None
    /\ outfit_recommendations = None
    /\ products = None
    /\ composite_query = None
    /\ final_output = None
    /\ exc = None
    /\ calls = << >>
    /\ io = << >>
    /\ kwscan = FALSE
    /\ stage_log = << >>
    /\ search_reply = None
    /\ plan = None
    /\ state = None
    /\ updates = None

ParseIntent ==
    /\ pc = "intent_in"
    /\ \E r \in {parse_travel_intent(user_prompt, today, llm) : llm \in LLMDestinationReplies} :
          /\ After(r, "intent_out")
          /\ parsed_intent' = IF IsNone(r.exc) THEN Some(r.ret) ELSE None
    /\ UNCHANGED << state, updates, variant, user_prompt, today, weather, events, activities_list,
                    outfit_recommendations, products, composite_query, final_output,
                    kwscan, stage_log, search_reply, plan >>

NextIntent == ParseIntent

SpecIntent == InitIntent /\ [][NextIntent]_vars

-----------------------------------------------------------------------------

(* get_weather_context of main.py on its own: a destination, a start date
   and a current day drawn, then the call with every reply of the geocoder
   and of the weather service *)

WeatherStartDates ==
    { None, Some(""), Some("2026-11-04"), Some("2026-11-05"), Some("2026-11-06"),
      Some("2026-12-24"), Some("2026-13-01"), Some("next friday") }

InitWeather ==
    /\ variant = "main"
    /\ user_prompt = ""
    /\ today \in {Today, Today + 1}
    /\ pc = "weather_in"
    /\ parsed_intent \in {Some([destination |-> d, start_date |-> s, end_date |-> s]) :
                            d \in {None, Some(""), Some("Miami")}, s \in WeatherStartDates}
    /\ weather = None
    /\ events = None
    /\ activities_list = None
    /\ outfit_recommendations = None
    /\ products = None
    /\ composite_query = None
    /\ final_output = None
    /\ exc = None
    /\ calls = << >>
    /\ io = << >>
    /\ kwscan = FALSE
    /\ stage_log = << >>
    /\ search_reply = None
    /\ plan = None
    /\ state = None
    /\ updates = None

FetchWeather ==
    /\ pc = "weather_in"
    /\ \E r \in {get_weather_context(IntentField("destination"), IntentField("start_date"),
                     IntentField("end_date"), today, g, w) :
                   g \in GeoReplies, w \in WeatherReplies} :
          /\ After(r, "weather_out")
          /\ weather' = IF IsNone(r.exc) THEN Some(r.ret) ELSE None
    /\ UNCHANGED << state, updates, variant, user_prompt, today, parsed_intent, events,
                    activities_list, outfit_recommendations, products, composite_query,
                    final_output, kwscan, stage_log, search_reply, plan >>

NextWeather == FetchWeather

SpecWeather == InitWeather /\ [][NextWeather]_vars

-----------------------------------------------------------------------------

(* travel_intent_bot.py: the chat that collects a TravelIntent turn by turn.
   A dict handed to merge_intent maps every field to whether the key is
   present and, when it is, to its value (None for JSON null).  The string
   fields carry a str or null, activities a list of str or null, and
   budget_amount a number or a str float() rejects. *)

IntentFields ==
    { "destination", "travel_date", "activities", "preferred_brand", "clothes",
      "budget_amount", "budget_currency", "notes" }

Absent == [given |-> FALSE, value |-> None]
Null == [given |-> TRUE, value |-> None]
Given(v) == [given |-> TRUE, value |-> Some(v)]

\* a JSON number n, and a value float() raises ValueError on
Number(n) == [n |-> n, ok |-> TRUE]
NotANumber == [n |-> 0, ok |-> FALSE]

\* TravelIntent()
TravelIntent ==
    [ destination |-> None, travel_date |-> None, activities |-> << >>,
      preferred_brand |-> None, clothes |-> None, budget_amount |-> None,
      budget_currency |-> None, notes |-> None ]

\* TravelIntent.is_complete
is_complete(intent) ==
    /\ TruthyStr(intent.destination)
    /\ TruthyStr(intent.travel_date)
    /\ Len(intent.activities) > 0
    /\ TruthyStr(intent.preferred_brand)
    /\ TruthyStr(intent.clothes)
    /\ ~IsNone(intent.budget_amount)
    /\ TruthyStr(intent.budget_currency)

\* asdict(intent), as the dict of an update
asdict(intent) ==
    [k \in IntentFields |->
        IF k = "activities" THEN Given(intent.activities)
        ELSE IF k = "budget_amount"
             THEN IF IsNone(intent.budget_amount) THEN Null
                  ELSE Given(Number(Val(intent.budget_amount)))
        ELSE IF IsNone(intent[k]) THEN Null ELSE Given(Val(intent[k]))]

\* clean_str of merge_intent
clean_str(s) ==
    IF IsNone(s) THEN None
    ELSE IF strip(Val(s)) = "" THEN None
    ELSE Some(strip(Val(s)))

\* d.get(k, default)
DictGet(d, k, default) == IF d[k].given THEN d[k].value ELSE default

\* re.match(r"^\d{4}-\d{2}-\d{2}$", s)
pattern_single(s) == Len(s) = 10 /\ IsoShapeAt(s, 1)

\* re.match(r"^\d{4}-\d{2}-\d{2}\s+to\s+\d{4}-\d{2}-\d{2}$", s)
pattern_range(s) ==
    /\ IsoShapeAt(s, 1)
    /\ \E a \in 12..Len(s) : \E b \in (a + 3)..Len(s) :
          /\ \A i \in 11..(a - 1) : Char(s, i) \in Whitespace
          /\ MatchAt(s, a, "to")
          /\ \A i \in (a + 2)..(b - 1) : Char(s, i) \in Whitespace
          /\ IsoShapeAt(s, b)
          /\ b + 9 = Len(s)

DatePendingNote == " (Travel date format pending confirmation)"

\* merge_intent
merge_intent(original, upd) ==
    LET act == DictGet(upd, "activities", None)
        NonBlank(a) == strip(a) /= ""
        Stripped(xs) == [i \in 1..Len(xs) |-> strip(xs[i])]
        amount_in == DictGet(upd, "budget_amount", None)
        budget_amount ==
            IF ~IsNone(amount_in) /\ Val(amount_in).ok
            THEN Some(Val(amount_in).n)
            ELSE original.budget_amount
        budget_currency == DictGet(upd, "budget_currency", original.budget_currency)
        travel_date == clean_str(DictGet(upd, "travel_date", original.travel_date))
        notes == clean_str(DictGet(upd, "notes", original.notes))
        Hinted(n) == IF Contains(lower(n), "format") THEN Some(n)
                     ELSE Some(n \o DatePendingNote)
    IN  [ destination |-> clean_str(DictGet(upd, "destination", original.destination)),
          travel_date |-> travel_date,
          activities |-> IF IsNone(act) THEN original.activities
                         ELSE Stripped(SelectSeq(Val(act), NonBlank)),
          preferred_brand |-> clean_str(DictGet(upd, "preferred_brand", original.preferred_brand)),
          clothes |-> clean_str(DictGet(upd, "clothes", original.clothes)),
          budget_amount |-> budget_amount,
          budget_currency |->
              IF IsNone(budget_currency) /\ ~IsNone(budget_amount)
                 /\ IsNone(original.budget_currency)
              THEN Some("USD")
              ELSE OrElse(clean_str(budget_currency), original.budget_currency),
          notes |->
              IF TruthyStr(travel_date)
                 /\ ~(pattern_single(Val(travel_date)) \/ pattern_range(Val(travel_date)))
              THEN Hinted(IF TruthyStr(notes) THEN Val(notes) ELSE "")
              ELSE notes ]

EmptyUpdate == [k \in IntentFields |-> Absent]
NullUpdate == [k \in IntentFields |-> Null]

\* the updated_intent dictionaries the clarifier answers with
ChatUpdates ==
    { EmptyUpdate,
      NullUpdate,
      [EmptyUpdate EXCEPT !.destination = Given(" Paris "), !.travel_date = Given("2026-12-01")],
      [NullUpdate EXCEPT !.destination = Given("Rome")],
      [EmptyUpdate EXCEPT !.destination = Null],
      [EmptyUpdate EXCEPT !.travel_date = Given("2026-12-01 to 2026-12-10")],
      [EmptyUpdate EXCEPT !.travel_date = Given("next friday"), !.notes = Null],
      [EmptyUpdate EXCEPT !.notes = Given("date format unclear")],
      [EmptyUpdate EXCEPT !.activities = Given(<< "hiking", " ", " dinner " >>),
                     !.preferred_brand = Given("Nike"), !.clothes = Given("casual")],
      [EmptyUpdate EXCEPT !.activities = Given(<< >>)],
      [EmptyUpdate EXCEPT !.budget_amount = Given(Number(500))],
      [EmptyUpdate EXCEPT !.budget_amount = Given(Number(500)), !.budget_currency = Null],
      [EmptyUpdate EXCEPT !.budget_amount = Given(Number(500)), !.budget_currency = Given("  ")],
      [EmptyUpdate EXCEPT !.budget_amount = Given(Number(300)), !.budget_currency = Given("EUR")],
      [EmptyUpdate EXCEPT !.budget_amount = Given(NotANumber)],
      [EmptyUpdate EXCEPT !.budget_currency = Given("")] }

\* what the chat completion gives call_llm_clarifier: an exception, text that
\* is not JSON, a JSON array, or a JSON object with its updated_intent
ClarifierReplies ==
    { [kind |-> "raise", updated_intent |-> None],
      [kind |-> "text", updated_intent |-> None],
      [kind |-> "array", updated_intent |-> None],
      [kind |-> "json", updated_intent |-> None] }
    \cup { [kind |-> "json", updated_intent |-> Some(u)] : u \in ChatUpdates }

\* call_llm_clarifier followed by llm_result.get("updated_intent") or {}
call_llm_clarifier(current_intent, reply) ==
    LET cs == << "call_llm_clarifier", "llm" >>
        ios == << IO("llm:clarifier", reply.kind) >>
    IN  IF reply.kind = "raise" THEN Raised("APIError", cs, ios)
        ELSE IF reply.kind = "array" THEN Raised("AttributeError", cs, ios)
        ELSE IF reply.kind = "text" THEN Returned(asdict(current_intent), cs, ios)
        ELSE IF IsNone(reply.updated_intent) THEN Returned(EmptyUpdate, cs, ios)
        ELSE Returned(Val(reply.updated_intent), cs, ios)

MaxTurns == 3

Turns == Cardinality({i \in 1..Len(calls) : calls[i] = "bot_turn"})

InitChat ==
    /\ variant = "chat"
    /\ user_prompt = ""
    /\ today = Today
    /\ pc = "chat"
    /\ parsed_intent = None
    /\ weather = None
    /\ events = None
    /\ activities_list = None
    /\ outfit_recommendations = None
    /\ products = None
    /\ composite_query = None
    /\ final_output = None
    /\ exc = None
    /\ calls = << >>
    /\ io = << >>
    /\ kwscan = FALSE
    /\ stage_log = << >>
    /\ search_reply = None
    /\ plan = None
    /\ state = Some([intent |-> TravelIntent])
    /\ updates = None

\* bot_turn: one message of the user answered
bot_turn ==
    /\ pc = "chat"
    /\ Turns < MaxTurns
    /\ \E r \in {call_llm_clarifier(Val(state).intent, l) : l \in ClarifierReplies} :
          /\ exc' = r.exc
          /\ calls' = calls \o << "bot_turn" >> \o r.calls
          /\ io' = io \o r.io
          /\ IF IsNone(r.exc)
             THEN /\ updates' = Some(r.ret)
                  /\ state' = Some([intent |-> merge_intent(Val(state).intent, r.ret)])
             ELSE /\ updates' = None
                  /\ UNCHANGED state
    /\ UNCHANGED << variant, user_prompt, today, pc, parsed_intent, weather, events,
                    activities_list, outfit_recommendations, products, composite_query,
                    final_output, kwscan, stage_log, search_reply, plan >>

NextChat == bot_turn

SpecChat == InitChat /\ [][NextChat]_vars

-----------------------------------------------------------------------------

(* The properties *)

Blank(s) == strip(s) = ""

Range(xs) == {xs[i] : i \in 1..Len(xs)}

Finished == pc \in {"done", "raised"}

\* C1 (as the specification states it): for an empty or whitespace-only
\* request the run invokes no collaborator at all.
C1_BlankRequestInvokesNothing == Blank(user_prompt) => calls = << >>

\* C2 (as the specification states it): on a non-empty request no exception
\* escapes generate_travel_recommendation, whatever the stages' outcomes.
C2_NoExceptionEscapes == ~Blank(user_prompt) => (pc /= "raised" /\ exc = None)

\* the stage calls of one run, in the order the orchestrator makes them
StageCalls(v) ==
    << IF v = "main" THEN "parse_travel_intent" ELSE "extract_with_llm",
       "get_weather_context", "get_local_events",
       IF v = "main" THEN "recommend_outfits" ELSE "recommend_outfits_llm",
       "get_raw_products_from_rag", "build_llm_context", "generate_formal_plan" >>

IsStageCall(c) == c \in Range(StageCalls(variant))

\* C3 (as the specification states it): a finished run on a non-empty request
\* has invoked every stage exactly once, in the fixed order, with the
\* activities derived.
C3_EachStageOnceInOrder ==
    (~Blank(user_prompt) /\ Finished) =>
        /\ SelectSeq(calls, IsStageCall) = StageCalls(variant)
        /\ ~IsNone(activities_list)

\* C4 (as the specification states it): every finished run has produced a
\* weather summary and an outfit recommendation, neither of them null.
C4_WeatherAndOutfitProduced ==
    Finished => (~IsNone(weather) /\ ~IsNone(outfit_recommendations))

\* the forecast or archive request of this run raised
WeatherTimedOut == \E i \in 1..Len(io) : io[i] = IO("weather_api", "timeout")

C6_EventsSuppressKeywordScan ==
    (~IsNone(activities_list) /\ Len(Val(events)) > 0) =>
        /\ ~kwscan
        /\ Len(Val(activities_list)) = Len(Val(events))

C6_Witness ==
    /\ ~IsNone(activities_list)
    /\ Len(Val(events)) = 2
    /\ Contains(lower(user_prompt), "dinner")

\* C7: when the events stage returned [], the activities are a dinner
\* activity if the lowercased request contains "dinner" or "party", then a
\* hike activity if it contains one of the seven activity words, and nothing
\* else.
C7_KeywordFallback ==
    (~IsNone(activities_list) /\ Len(Val(events)) = 0) =>
        /\ kwscan
        /\ Val(activities_list) =
              (IF \E k \in {"dinner", "party"} : Contains(lower(user_prompt), k)
               THEN << [type |-> "dinner", date |-> None] >> ELSE << >>)
              \o (IF \E k \in {"hike", "hiking", "gym", "yoga", "run", "beach", "swim"} :
                        Contains(lower(user_prompt), k)
                  THEN << [type |-> "hike", date |-> None] >> ELSE << >>)

C7_Witness ==
    /\ ~IsNone(activities_list)
    /\ Len(Val(events)) = 0
    /\ Val(activities_list) = << [type |-> "dinner", date |-> None],
                                 [type |-> "hike", date |-> None] >>

\* the first non-empty of an event record's title, summary and description
FirstTitleLike(ev) ==
    IF TruthyStr(Get(ev, "title")) THEN Get(ev, "title")
    ELSE IF TruthyStr(Get(ev, "summary")) THEN Get(ev, "summary")
    ELSE IF TruthyStr(Get(ev, "description")) THEN Get(ev, "description")
    ELSE None

\* C8: the i-th activity's type is the first non-empty of the i-th event's
\* title, summary and description, "outing" when there is none, and its date
\* is the event's start date (null when the event has none).
C8_ActivityFromEvent ==
    (~IsNone(activities_list) /\ Len(Val(events)) > 0) =>
        \A i \in 1..Len(Val(events)) :
            /\ i \in 1..Len(Val(activities_list))
            /\ Val(activities_list)[i].type =
                  (IF IsNone(FirstTitleLike(Val(events)[i])) THEN "outing"
                   ELSE Val(FirstTitleLike(Val(events)[i])))
            /\ Val(activities_list)[i].date =
                  (IF TruthyStr(Val(events)[i].start) THEN Val(events)[i].start ELSE None)

C8_Witness ==
    /\ ~IsNone(activities_list)
    /\ Len(Val(activities_list)) = 2
    /\ Val(activities_list)[1] = [type |-> "Jazz Festival", date |-> Some("2026-11-14")]
    /\ Val(activities_list)[2] = [type |-> "outing", date |-> None]

\* the parts of s between the occurrences of sep
RECURSIVE SplitOn(_, _)
SplitOn(s, sep) ==
    LET Cut(hits) ==
            IF hits = {} THEN << s >>
            ELSE << SubSeq(s, 1, Min(hits) - 1) >>
                 \o SplitOn(SubSeq(s, Min(hits) + Len(sep), Len(s)), sep)
    IN Cut({i \in 1..Len(s) : MatchAt(s, i, sep)})

QueryLabels ==
    << "destination", "season", "weather", "recommend_outfits", "user_prompt", "context" >>

\* the place of a part's label in the fixed order, 0 for a part with no label
LabelRank(part) ==
    LET Least(ks) == IF ks = {} THEN 0 ELSE Min(ks)
    IN Least({k \in 1..Len(QueryLabels) : StartsWith(part, QueryLabels[k] \o ": ")})

PartsOf(parts, label) == {i \in 1..Len(parts) : StartsWith(parts[i], label \o ": ")}

WeatherFields == << "avg_high_c", "avg_low_c", "precipitation_chance", "condition" >>

\* a field of the summary is present: a number that is not None, a condition
\* that is not empty
FieldPresent(k) ==
    /\ ~IsNone(weather)
    /\ IF k = "condition" THEN TruthyStr(Get(Val(weather), k))
       ELSE ~IsNone(Get(Val(weather), k))

\* the attributes of the weather clause are those of the present fields, in
\* the order of WeatherFields
WeatherClauseOf(attrs, present) ==
    /\ Len(attrs) = Len(present)
    /\ \A j \in 1..Len(present) : StartsWith(attrs[j], present[j] \o ": ")

QueryWellFormed(parts) ==
    /\ \A i \in 1..Len(parts) : LabelRank(parts[i]) > 0
    /\ \A i \in 1..(Len(parts) - 1) : LabelRank(parts[i]) < LabelRank(parts[i + 1])
    /\ parts[Len(parts)] = CatchAll
    /\ IF TruthyStr(IntentField("destination"))
       THEN \E i \in 1..Len(parts) :
                parts[i] = "destination: " \o Val(IntentField("destination"))
       ELSE PartsOf(parts, "destination") = {}
    /\ IF TruthyStr(IntentField("season_hint"))
       THEN \E i \in 1..Len(parts) :
                parts[i] = "season: " \o Val(IntentField("season_hint"))
       ELSE PartsOf(parts, "season") = {}
    /\ (PartsOf(parts, "recommend_outfits") /= {}) <=> ~IsNone(outfit_recommendations)
    /\ IF user_prompt /= ""
       THEN \E i \in 1..Len(parts) : parts[i] = "user_prompt: " \o user_prompt
       ELSE PartsOf(parts, "user_prompt") = {}
    /\ (PartsOf(parts, "weather") /= {}) <=> (\E j \in 1..Len(WeatherFields) :
                                                FieldPresent(WeatherFields[j]))
    /\ \A i \in PartsOf(parts, "weather") :
          WeatherClauseOf(SplitOn(SubSeq(parts[i], Len("weather: ") + 1, Len(parts[i])), ", "),
                          SelectSeq(WeatherFields, FieldPresent))

\* C10: the query's parts, split on " | ", are labelled destination, season,
\* weather, recommend_outfits, user_prompt, context in that order; each of the
\* first five is there exactly when its value is non-empty, each weather field
\* is in the weather clause exactly when it is present, and the last part is
\* the constant catch-all clause.
C10_QueryParts ==
    pc = "query_out" => QueryWellFormed(SplitOn(Val(composite_query), " | "))

C10_Witness ==
    /\ pc = "query_out"
    /\ Len(SplitOn(Val(composite_query), " | ")) = 6
    /\ Val(weather).avg_high_c = Some(PyInt(0))
    /\ Val(weather).condition = Some("Sunny")

MiamiRequest == "I'm travelling to Miami for a beach vacation next weekend"

\* the run of the scenario: the Miami request, destination "Miami", no events
\* and a summary whose avg_high_c is 24.9
MiamiScenario ==
    /\ user_prompt = MiamiRequest
    /\ ~IsNone(parsed_intent)
    /\ IntentField("destination") = Some("Miami")
    /\ events = Some(<< >>)
    /\ ~IsNone(weather)
    /\ Get(Val(weather), "avg_high_c") = Some(PyFloat(249))

\* C11: in the Miami scenario the activities derived are exactly one hike
\* activity, and the composite query built for the search holds
\* "destination: Miami" and "avg_high_c: 24.9 C".
C11_MiamiScenario ==
    MiamiScenario =>
        /\ ~IsNone(activities_list) =>
              Val(activities_list) = << [type |-> "hike", date |-> None] >>
        /\ ~IsNone(composite_query) =>
              /\ Contains(Val(composite_query), "destination: Miami")
              /\ Contains(Val(composite_query), "avg_high_c: 24.9 C")

C11_Witness ==
    /\ MiamiScenario
    /\ ~IsNone(activities_list)
    /\ ~IsNone(composite_query)
    /\ variant = "main"

\* ---- C12 ----
\* the stages of a run that left their primary path for their fallback:
\* a failed model call of the intent, outfit or synthesis stage, a weather
\* summary that is not a forecast, an events request that failed, a search
\* client that could not be built
Did(svc, outs) == \E i \in 1..Len(io) : io[i].svc = svc /\ io[i].out \in outs

FallbackStages ==
    {s \in {"intent", "weather", "events", "outfit", "products", "plan"} :
        \/ s = "intent" /\ Did("llm:destination", {"raise"})
        \/ s = "weather" /\ ~IsNone(weather)
                         /\ Get(Val(weather), "data_source") \in {Some("error"), Some("climatology")}
        \/ s = "events" /\ ~IsNone(events) /\ Did("events_api", {"raise", "badjson"})
        \/ s = "outfit" /\ ~IsNone(outfit_recommendations)
                        /\ Did("llm:outfit", {"raise", "nondict", "badcount"})
        \/ s = "products" /\ Did("search:init", {"raise"})
        \/ s = "plan" /\ Did("llm:plan", {"raise"})}

\* C12: after any run the stage log holds one failure entry for each stage
\* that took its fallback path.
C12_FailuresLogged == Finished => Len(stage_log) = Cardinality(FallbackStages)

\* ---- C13 ----
\* C13: the intent stage never raises: once step 1 has run, whatever the
\* request text and whatever its model call did, the run holds an intent.
C13_IntentNeverRaises == pc /= "step1" => ~IsNone(parsed_intent)

\* ---- C14 ----
\* a failure inside the weather stage, seen right after it returned:
\* geocoding, the forecast request or the model call failed
WeatherCallFailed ==
    /\ pc = "step3"
    /\ \/ Did("geocoding_api", {"raise", "empty"})
       \/ Did("weather_api", {"timeout"})
       \/ Did("llm:weather", {"raise", "null", "nondict", "badjson"})

\* C14: the weather stage never raises: once step 2 has run the run holds
\* a weather summary, and after a failure of geocoding, of the forecast
\* request or of the model call that summary has data_source "error" and
\* a populated error field.
C14_WeatherNeverRaises ==
    (~IsNone(parsed_intent) /\ pc /= "step2") =>
        /\ ~IsNone(weather)
        /\ WeatherCallFailed =>
               /\ Get(Val(weather), "data_source") = Some("error")
               /\ TruthyStr(Get(Val(weather), "error"))

\* ---- C15 ----
\* C15: the events stage never raises: once step 3 has run the run holds
\* an events list, whatever the payload's entries hold, and that list is
\* empty when the request or the parsing of its body failed.
C15_EventsNeverRaise ==
    (~IsNone(weather) /\ pc /= "step3") =>
        /\ ~IsNone(events)
        /\ Did("events_api", {"raise", "badjson", "empty", "null", "errors"})
               => events = Some(<< >>)

\* ---- C16 ----
\* the search service failed in step 5: the client could not be built, or
\* the semantic and the simple request both raised
SearchFailed ==
    /\ ~IsNone(search_reply)
    /\ \/ Val(search_reply).init_fails
       \/ Val(search_reply).sem_raises /\ Val(search_reply).simple_raises

\* C16: when the search client cannot be built, or both searches raise,
\* the retrieval stage returns the empty list and the run goes on to the
\* synthesis without an exception.
C16_SearchFailureGivesEmptyList ==
    SearchFailed => /\ products = Some(<< >>)
                    /\ pc \in {"step6", "done"}
                    /\ IsNone(exc)

C16_Witness ==
    /\ SearchFailed
    /\ ~Val(search_reply).init_fails
    /\ Did("search:simple", {Val(composite_query)})
    /\ pc = "done"

\* ---- C17 ----
\* the results of the search whose answer the stage uses: the semantic
\* ones when that request returned any, else those of the simple request
SearchResults ==
    LET s == Val(search_reply)
    IN IF s.init_fails THEN << >>
       ELSE IF ~s.sem_raises /\ Len(s.semantic) > 0 THEN s.semantic
       ELSE IF s.simple_raises THEN << >>
       ELSE s.simple

\* C17: the product list never has more than top_k entries, however many
\* results the search returned, and its entries are the first results in
\* the order of the search.
C17_AtMostTopKInOrder ==
    ~IsNone(search_reply) =>
        /\ Len(Val(products)) = Min({top_k, Len(SearchResults)})
        /\ \A i \in 1..Len(Val(products)) :
               Val(products)[i] = _doc_to_dict(SearchResults[i])

C17_Witness ==
    /\ ~IsNone(search_reply)
    /\ Len(SearchResults) > top_k
    /\ Len(Val(products)) = top_k
    /\ Val(products)[1] /= Val(products)[2]

\* ---- C18 ----
\* the arithmetic fallback on the arguments of the call, were the climate c
HeuristicFor(c) ==
    outfit_fallback(Val(activities_list), IntentField("duration_days"),
                    Val(parsed_intent).intention, c,
                    Val(parsed_intent).laundry_available)

C19_RunReturnsSynthesizerString ==
    pc = "done" =>
        /\ IsNone(exc)
        /\ ~IsNone(final_output)
        /\ Did("llm:plan", {"raise"}) =>
               /\ ~IsNone(plan)
               /\ StartsWith(Val(plan), "Error generating plan: ")
               /\ Len(Val(plan)) > Len("Error generating plan: ")
               /\ final_output = plan
        /\ Did("llm:plan", {"text"}) =>
               /\ ~IsNone(plan)
               /\ ~StartsWith(Val(plan), "Error generating plan: ")
               /\ final_output = plan

C19_Witness ==
    /\ pc = "done"
    /\ Did("llm:plan", {"raise"})
    /\ final_output = Some("Error generating plan: Request timed out.")

\* ---- C20 ----
\* C20: when the retrieval returned the empty list the run does not raise:
\* the context is built and generate_formal_plan is called with the products
\* still the empty list, and the run returns the synthesizer's string.
C20_EmptyProductsStillSynthesized ==
    products = Some(<< >>) =>
        /\ pc \in {"step6", "done"}
        /\ IsNone(exc)
        /\ pc = "done" =>
               /\ \E i \in 1..(Len(calls) - 1) :
                      /\ calls[i] = "build_llm_context"
                      /\ calls[i + 1] = "generate_formal_plan"
               /\ ~IsNone(final_output)
               /\ ~IsNone(plan) => final_output = plan

C20_Witness ==
    /\ pc = "done"
    /\ products = Some(<< >>)
    /\ Did("llm:plan", {"text"})
    /\ final_output = Some("Your formal travel plan")

\* ---- C21 ----
\* the day number of a date of the intent
IntentDay(k) == Val(strptime_ymd(Val(IntentField(k))))

\* C21: in every intent the extractor returns, when start_date and end_date
\* are both present, end_date is not earlier than start_date.
C21_EndNotBeforeStart ==
    (pc = "intent_out" /\ ~IsNone(IntentField("start_date"))
                       /\ ~IsNone(IntentField("end_date")))
        => IntentDay("end_date") >= IntentDay("start_date")

\* ---- C22 ----
\* C22: the intent, the weather summary and the events list are each
\* produced once: no later step of the run changes the one it reads.
C22_ContextNotModified ==
    [][/\ ~IsNone(parsed_intent) => parsed_intent' = parsed_intent
       /\ ~IsNone(weather) => weather' = weather
       /\ ~IsNone(events) => events' = events]_vars

C22_Witness ==
    /\ pc = "done"
    /\ IntentField("destination") = Some("Miami")
    /\ Get(Val(weather), "data_source") = Some("forecast")
    /\ Len(Val(events)) = 2
    /\ ~IsNone(outfit_recommendations)

\* ---- C24 ----
\* what the request asks for in relative terms, with no single-day keyword
AsksWeekend ==
    /\ IsNone(single_day_match(lower(user_prompt)))
    /\ \/ Contains(lower(user_prompt), "next weekend")
       \/ Contains(lower(user_prompt), "this weekend")

AsksWeek ==
    /\ IsNone(single_day_match(lower(user_prompt)))
    /\ ~AsksWeekend
    /\ \/ Contains(lower(user_prompt), "next week")
       \/ Contains(lower(user_prompt), "this week")

\* C24: on every current weekday a request for next or this weekend gives a
\* Saturday start_date, the Sunday after it as end_date and duration_days 2;
\* a request for next or this week gives a Monday start_date, an end_date six
\* days later and duration_days 7.
C24_WeekendIsSaturdayToSunday ==
    pc = "intent_out" =>
        /\ AsksWeekend =>
               /\ ~IsNone(IntentField("start_date")) /\ ~IsNone(IntentField("end_date"))
               /\ weekday(IntentDay("start_date")) = 5
               /\ IntentDay("end_date") = IntentDay("start_date") + 1
               /\ IntentField("duration_days") = Some(2)
        /\ AsksWeek =>
               /\ ~IsNone(IntentField("start_date")) /\ ~IsNone(IntentField("end_date"))
               /\ weekday(IntentDay("start_date")) = 0
               /\ IntentDay("end_date") = IntentDay("start_date") + 6
               /\ IntentField("duration_days") = Some(7)

\* ---- C25 ----
\* the search requests of the run, in the order they were made
SearchRequests == SelectSeq(io, LAMBDA e : e.svc \in {"search:semantic", "search:simple"})

SemanticAnswered ==
    /\ ~Val(search_reply).init_fails
    /\ ~Val(search_reply).sem_raises
    /\ Len(Val(search_reply).semantic) > 0

\* C25: a retrieval call sends its composite query to the semantic search
\* first and to the simple search only when the semantic one raised or found
\* nothing; when the semantic search finds something the simple one is not
\* issued and the products are those results; at most two requests are made,
\* both with the same query text.
C25_SemanticThenSimple ==
    (~IsNone(search_reply) /\ ~Val(search_reply).init_fails) =>
        /\ Len(SearchRequests) \in {1, 2}
        /\ SearchRequests[1].svc = "search:semantic"
        /\ \A i \in 1..Len(SearchRequests) : SearchRequests[i].out = Val(composite_query)
        /\ Len(SearchRequests) = 2 => SearchRequests[2].svc = "search:simple"
        /\ SemanticAnswered <=> Len(SearchRequests) = 1
        /\ SemanticAnswered =>
               /\ Len(Val(products)) = Min({top_k, Len(Val(search_reply).semantic)})
               /\ \A i \in 1..Len(Val(products)) :
                      Val(products)[i] = _doc_to_dict(Val(search_reply).semantic[i])

C25_Witness ==
    /\ ~IsNone(search_reply)
    /\ Val(search_reply).sem_raises
    /\ Len(SearchRequests) = 2
    /\ Len(Val(products)) = top_k
    /\ pc = "done"

\* ---- C26 ----
ActivityTypes == {"outdoor", "dinner", "activity"}

\* the activities as the planner tallies them
Tallied == _normalize_activities(Val(activities_list))

\* C26: every activity passed to the outfit planner is normalized to one of
\* the types outdoor, dinner and activity and counted in exactly one tally, so
\* the three tallies add up to the number of activities; a keyword-derived
\* hike gives at least one activity wear in the rule-based planner.
C26_EveryActivityTallied ==
    ~IsNone(outfit_recommendations) =>
        /\ \A i \in 1..Len(Tallied) : Tallied[i].type \in ActivityTypes
        /\ CountType(Tallied, "outdoor") + CountType(Tallied, "dinner")
               + CountType(Tallied, "activity") = Len(Val(activities_list))
        /\ (variant = "main" /\ \E i \in 1..Len(Tallied) : Val(activities_list)[i].type = "hike")
               => Val(outfit_recommendations).counts.activity_wears >= 1

\* the TravelIntent the chat holds
ChatIntent == Val(state).intent

\* C27: in the chat, after any sequence of turns from an empty TravelIntent,
\* whenever budget_amount is set budget_currency is set too, also when the
\* update that gave the amount carried an empty or blank currency string.
C27_AmountHasCurrency ==
    variant = "chat" => (~IsNone(ChatIntent.budget_amount) => ~IsNone(ChatIntent.budget_currency))

\* whether field k of the intent holds a collected value
Collected(intent, k) ==
    IF k = "activities" THEN Len(intent.activities) > 0 ELSE ~IsNone(intent[k])

\* C28: a field the chat has collected is not reset to unset by a later
\* merge_intent whose update carries null for that field or omits it, and so a
\* complete intent stays complete under an update that gives no field a value.
C28_CollectedNeverReset ==
    [][(variant = "chat" /\ ~IsNone(updates')) =>
          /\ \A k \in IntentFields :
                (Collected(ChatIntent, k) /\ IsNone(Val(updates')[k].value))
                    => Collected(Val(state').intent, k)
          /\ (is_complete(ChatIntent)
              /\ \A k \in IntentFields : IsNone(Val(updates')[k].value))
                    => is_complete(Val(state').intent)]_vars

\* the weather request of this run got no payload: it raised, or its JSON has
\* no "daily" key
WeatherPayloadMissing ==
    \E i \in 1..Len(io) : io[i] \in {IO("weather_api", "timeout"), IO("weather_api", "nodaily")}

\* the day the trip starts, None when the intent has none that parses
TripStart ==
    IF IsNone(parsed_intent) \/ ~TruthyStr(IntentField("start_date")) THEN None
    ELSE strptime_ymd(Val(IntentField("start_date")))

\* C29: every summary get_weather_context of main.py returns has data_source
\* forecast, historical, climatology or error; its error is non-null exactly
\* when data_source is "error"; it is "forecast" only when the start date is
\* strictly after today; and a weather request that failed or carried no
\* payload gives "climatology".
C29_WeatherSummaryShape ==
    (variant = "main" /\ ~IsNone(weather)) =>
        /\ Val(weather).data_source \in
               {Some("forecast"), Some("historical"), Some("climatology"), Some("error")}
        /\ (Val(weather).error /= None) <=> (Val(weather).data_source = Some("error"))
        /\ Val(weather).data_source = Some("forecast") =>
               (~IsNone(TripStart) /\ Val(TripStart) > today)
        /\ WeatherPayloadMissing => Val(weather).data_source = Some("climatology")

\* a trip that starts today was answered from the archive
C29_Witness ==
    /\ variant = "main"
    /\ ~IsNone(weather)
    /\ Val(weather).data_source = Some("historical")
    /\ TripStart = Some(today)
    /\ pc = "weather_out"

\* ---- C30 ----
OutfitCounts == Val(outfit_recommendations).counts

\* the total_wears of a reply, 0 when it has none
GivenTotal(l) == IF l.has_counts THEN IntOr0(l.obj.counts.total_wears) ELSE 0

SumOfWears ==
    OutfitCounts.outdoor_wears + OutfitCounts.dinner_wears + OutfitCounts.activity_wears

\* C30: every recommendation either planner returns has non-negative integer
\* counts and a total no less than outdoor + dinner + activity wears.  The
\* rule-based recommend_outfits and the arithmetic fallback return a total
\* equal to that sum; _post_validate raises a smaller total of the model's
\* reply to the sum and keeps at most 10 assumptions.
C30_CountsConsistent ==
    ~IsNone(outfit_recommendations) =>
        /\ \A k \in DOMAIN OutfitCounts : OutfitCounts[k] \in Nat
        /\ OutfitCounts.total_wears >= SumOfWears
        /\ ("recommend_outfits" \in Range(calls)
            \/ Did("llm:outfit", {"raise", "badcount", "nondict"}))
               => OutfitCounts.total_wears = SumOfWears
        /\ Did("llm:outfit", {"json"}) =>
               /\ \E l \in {r \in LLMOutfitReplies : r.kind = "json"} :
                     OutfitCounts.total_wears = Max({GivenTotal(l), SumOfWears})
               /\ Len(Val(outfit_recommendations).assumptions) <= MaxAssumptions

\* the model's reply gave a total below the sum of its counts and more than
\* 10 assumptions
C30_Witness ==
    /\ pc = "outfit_out"
    /\ Did("llm:outfit", {"json"})
    /\ OutfitCounts.total_wears = 3
    /\ SumOfWears = 3
    /\ Len(Val(outfit_recommendations).assumptions) = MaxAssumptions
    /\ IntentField("duration_days") = None

====
